---------------------------- MODULE Spec2Model ----------------------------
(***************************************************************************)
(* A model of gdoc-crawler: the discovery crawler (steps/crawler package), *)
(* the uploader ("Republisher"), the hyperlink patcher, the pipeline       *)
(* runner, and the earlier streaming (three-goroutine) design.             *)
(*                                                                         *)
(* Each component has its own specification over the shared variables:     *)
(*   Spec          the sequential Crawler.Run                              *)
(*   SpecFair      the same, with the fairness of a sequential loop        *)
(*   SpecUpload    Uploader.Run over a workspace the crawler left          *)
(*   SpecPatch     Patcher.Run over a workspace and the uploader's results *)
(*   SpecPipeline  Pipeline.RunFrom over a list of steps                   *)
(*   SpecStream    the crawler, uploader and patcher goroutines joined by  *)
(*                 the paths channel and the doneUpload channel            *)
(*   SpecStreamFair  the same, a goroutine that can run being run          *)
(*   SpecCanon     CanonicalizeURL applied to a raw URL and to its result  *)
(*   SpecSlug      Crawler.Run over a web whose ids begin alike or are     *)
(*                 short                                                   *)
(*   SpecRecrawl   Crawler.Run over the output directory of an earlier run *)
(*   SpecRun       main: the pipeline of the three steps, run, killed and  *)
(*                 run again over the same output directory and Drive      *)
(***************************************************************************)
EXTENDS Integers, Sequences, FiniteSets, TLC

(***************************************************************************)
(* Bounds of the model.                                                    *)
(***************************************************************************)
\* the most hyperlinks one fetched document carries
MaxLinks == 2
\* Crawler.MaxDepth, the -depth flag
MaxDepth == 1
\* CanonicalizeURL: "for i := 0; i < 3 && redirectRe.MatchString(cleanURL)"
MaxUnwrap == 3
\* the deepest redirect wrapping of a raw URL
MaxWrap == 7

(***************************************************************************)
(* URLs.  A URL is its redirect-wrapper nesting (wrap), the shape of the   *)
(* innermost address (kind: a document, a spreadsheet, anything else), the *)
(* provider id and the view-mode suffix.                                   *)
(***************************************************************************)
\* enc counts how many times the innermost address is percent-escaped inside
\* its wrappers: 0 when the wrappers carry their target in the clear
URL(w, k, i, v) ==
    [wrap |-> w, kind |-> k, id |-> i, view |-> v, enc |-> 0, scheme |-> "https"]

\* the same address written with http://
Http(u) == [u EXCEPT !.scheme = "http"]

\* the hyperlinks a fetched document may carry
HrefURLs ==
    { URL(0, "document", 1, "edit"),
      URL(1, "document", 1, "view"),
      URL(0, "document", 2, "edit"),
      Http(URL(0, "document", 2, "edit")),
      URL(1, "spreadsheets", 3, "edit"),
      URL(0, "other", 9, "none") }

\* the -url flag
RootURLs ==
    { URL(0, "document", 1, "edit"),
      URL(1, "spreadsheets", 3, "edit"),
      URL(0, "other", 9, "none") }

NoKey == [type |-> "", id |-> 0]
Key(t, i) == [type |-> t, id |-> i]
Keys == { Key("doc", 1), Key("doc", 2), Key("sheet", 3) }

\* the loop of CanonicalizeURL from pass i on: while the URL is a redirect
\* wrapper, replace it by its q parameter, which parsed.Query().Get decodes
\* once and url.QueryUnescape once more; stop after MaxUnwrap passes, or at a
\* wrapper whose q is missing or empty
RECURSIVE unwrapRedirects(_, _)

\* a mutant: the loop makes one pass only
unwrapRedirects_once(u, i) ==
    IF i < 1 /\ u.wrap > 0 /\ ~(u.wrap = 1 /\ u.kind = "empty")
    THEN unwrapRedirects([u EXCEPT !.wrap = @ - 1,
                                   !.enc = IF @ > 2 THEN @ - 2 ELSE 0], i + 1)
    ELSE u

unwrapRedirects(u, i) ==
    IF i < MaxUnwrap /\ u.wrap > 0 /\ ~(u.wrap = 1 /\ u.kind = "empty")
    THEN unwrapRedirects([u EXCEPT !.wrap = @ - 1,
                                   !.enc = IF @ > 2 THEN @ - 2 ELSE 0], i + 1)
    ELSE u

Unwrap(u) == unwrapRedirects(u, 0)

\* a mutant: the pattern also finds an address that is still escaped
googleDocsRe_escaped(cleanURL) ==
    IF cleanURL.kind \in {"document", "spreadsheets"}
    THEN << cleanURL, cleanURL.kind, cleanURL.id >>
    ELSE << >>

\* a mutant: the id capture runs on through the view-mode suffix
googleDocsRe_greedy(cleanURL) ==
    IF cleanURL.enc = 0 /\ cleanURL.kind \in {"document", "spreadsheets"}
    THEN << cleanURL, cleanURL.kind,
            IF cleanURL.view \in {"none", "?usp=sharing"} THEN cleanURL.id
            ELSE cleanURL.id + 10 >>
    ELSE << >>

\* googleDocsRe.FindStringSubmatch: the pattern is not anchored, so it finds
\* an address anywhere in the string where it stands unescaped; the id
\* capture "[^/?#]+" ends before a view suffix, a query or a fragment
googleDocsRe(cleanURL) ==
    IF cleanURL.enc = 0 /\ cleanURL.kind \in {"document", "spreadsheets"}
    THEN << cleanURL, cleanURL.kind, cleanURL.id >>
    ELSE << >>

\* Crawler.CanonicalizeURL: the identity key ("" for a URL out of scope) and
\* the unwrapped URL
CanonicalizeURL(rawURL) ==
    LET clean == Unwrap(rawURL)
        matches == googleDocsRe(clean)
    IN  [key |-> IF Len(matches) < 3 THEN NoKey
                   ELSE IF matches[2] = "document" THEN Key("doc", matches[3])
                   ELSE IF matches[2] = "spreadsheets" THEN Key("sheet", matches[3])
                   ELSE NoKey,
         clean |-> clean]

extractID(canonicalKey) == canonicalKey.id

\* docConfigs[docType].canExtractLinks
canExtractLinks(docType) == docType = "doc"

\* docConfigs[docType].filename
filename(docType) == IF docType = "doc" THEN "content.html" ELSE "content.csv"

(***************************************************************************)
(* Paths: a path is the sequence of directory names below the output       *)
(* directory, which is << >>.                                              *)
(***************************************************************************)
outDir == << >>

\* A provider id is a string of characters.  The model codes it as a number:
\* id % 10 codes its first six characters and id \div 10 the characters after
\* them, so that 2, 12 and 22 are three ids that begin alike.  The ids of
\* ShortIDs have fewer than six characters.
ShortIDs == {7}

\* makeSlug, "id[:6]": slicing a string shorter than six characters panics
\* (slice bounds out of range)
sliceOutOfRange(id) == id \in ShortIDs

\* makeSlug: the normalised title, a hyphen and the first six characters of
\* the id
makeSlug(title, id) == [slug |-> title, id6 |-> id % 10, redirect |-> FALSE]

Join(parent, name) == Append(parent, name)

Base(dir) == dir[Len(dir)]

RedirectName(dir) == [Base(dir) EXCEPT !.redirect = TRUE]

RECURSIVE CommonPrefix(_, _)
CommonPrefix(a, b) ==
    IF a = << >> \/ b = << >> \/ Head(a) # Head(b) THEN 0
    ELSE 1 + CommonPrefix(Tail(a), Tail(b))

\* a mutant: the target's path below the output directory
Rel_fromOutDir(base, target) == [up |-> 0, down |-> target]

\* filepath.Rel(base, target): the ".." steps and then the names to descend
Rel(base, target) ==
    LET c == CommonPrefix(base, target)
    IN  [up |-> Len(base) - c, down |-> SubSeq(target, c + 1, Len(target))]

\* the title the provider reports for an id: the documents 2 and 12 carry the
\* same title
TitleOf(id) == IF id = 12 THEN 2 ELSE id

RECURSIVE SeqsUpTo(_, _)
SeqsUpTo(S, n) ==
    IF n = 0 THEN { << >> }
    ELSE LET shorter == SeqsUpTo(S, n - 1)
         IN  shorter \cup { Append(s, x) : s \in { t \in shorter : Len(t) = n - 1 }, x \in S }

\* a second web, in which ids begin alike or are short
SlugHrefURLs ==
    { URL(0, "document", 2, "edit"),
      URL(0, "document", 12, "edit"),
      URL(0, "spreadsheets", 7, "edit") }

SlugRootURLs == { URL(0, "document", 4, "edit"), URL(0, "document", 22, "edit") }

\* the hyperlinks of the documents reached from a root
Contents(root) ==
    SeqsUpTo(IF root \in SlugRootURLs THEN SlugHrefURLs ELSE HrefURLs, MaxLinks)

VARIABLES
    cpc,            \* Crawler.Run: "start", "loop", "done", "failed", "panicked"
    startURL,       \* Crawler.startURL
    pendingLinks,   \* the FIFO work queue
    processedURLs,  \* identity key -> directory, a function on the keys seen
    files,          \* the workspace: directory path -> what the directory holds
    fetched,        \* ghost: keys whose export was fetched at least once
    refetched,      \* ghost: keys whose export was fetched more than once
    persisted,      \* ghost: keys for which a non-alias record was written
    repersisted,    \* ghost: keys for which it was written more than once
    failedKeys,     \* ghost: keys one of whose scrapes failed
    encountered,    \* ghost: keys of the entries processed within MaxDepth
    last,           \* ghost: what the last loop iteration did
    up,             \* Uploader.Run: its position, locals and statistics
    drive,          \* the destination Drive: the folder and the files created
    idMapFile,      \* id_map.json in the output directory
    pa,             \* Patcher.Run: its position, locals and statistics
    pl,             \* Pipeline.RunFrom: its position and what it ran
    st              \* the streaming design: three goroutines and two channels

crawlerVars ==
    << cpc, startURL, pendingLinks, processedURLs, files, fetched, refetched,
       persisted, repersisted, failedKeys, encountered, last >>

\* the crawler's bookkeeping, which the later steps never see
crawlerLocals ==
    << cpc, startURL, pendingLinks, processedURLs, fetched, refetched,
       persisted, repersisted, failedKeys, encountered, last >>

vars == << crawlerVars, up, drive, idMapFile, pa, pl, st >>

\* a component that is not running
Idle == [pc |-> "idle"]

\* id_map.json: absent, holding a JSON object, or cut short by a write that
\* has not ended or that failed
NoFile == [absent |-> TRUE]
File(m) == [map |-> m]
Partial == [partial |-> TRUE]

\* json.NewDecoder(f).Decode succeeds on id_map.json
Readable(f) == "map" \in DOMAIN f

Task(l, d, p, h) == [Link |-> l, Depth |-> d, Parent |-> p, hops |-> h]

Metadata(title, id, src, depth, type, isRedirect, redirectTo) ==
    [Title |-> title, ID |-> id, SourceURL |-> src, Depth |-> depth,
     Type |-> type, IsRedirect |-> isRedirect, RedirectTo |-> redirectTo]

NoRel == [up |-> 0, down |-> << >>]

\* metadata.json: absent, or cut short by a write that has not ended or that
\* failed
NoMeta == NoFile

\* json.NewDecoder(f).Decode succeeds on metadata.json
Decodes(meta) == "ID" \in DOMAIN meta

\* what a directory holds: the content file's name ("" if none), the
\* hyperlinks of content.html, and metadata.json
Entry(content, hrefs, meta) == [content |-> content, hrefs |-> hrefs, meta |-> meta]

WriteDir(fs, dir, entry) ==
    [p \in DOMAIN fs \cup {dir} |-> IF p = dir THEN entry ELSE fs[p]]

Put(m, k, v) == [x \in DOMAIN m \cup {k} |-> IF x = k THEN v ELSE m[x]]

\* ghost: the operation of an iteration, the key and the hop count (the number
\* of links followed from the root) of its entry, the children it enqueued,
\* and whether a record had been persisted for the key before
Op(o, k, h, q, s) == [op |-> o, key |-> k, hops |-> h, queued |-> q, seen |-> s]
NoOp == Op("none", NoKey, 0, 0, FALSE)

-----------------------------------------------------------------------------
(***************************************************************************)
(* The crawler.                                                            *)
(***************************************************************************)

\* a mutant: every hyperlink is taken for a reference
SelectInScope_all(hrefs) == hrefs

\* ExtractLinks: "if canonical != "" { links = append(links, ...) }"
SelectInScope(hrefs) == SelectSeq(hrefs, LAMBDA h : CanonicalizeURL(h).key # NoKey)

\* Crawler.ExtractLinks: one reference for each hyperlink that canonicalizes,
\* carrying the clean URL and the depth it was called with
ExtractLinks(hrefs, depth) ==
    LET inScope == SelectInScope(hrefs)
    IN  [i \in 1..Len(inScope) |->
            [Link |-> CanonicalizeURL(inScope[i]).clean, Depth |-> depth, Parent |-> << >>]]

\* a mutant: the head is read and the queue is not advanced
popLink_keep(queue) == [link |-> Head(queue), rest |-> queue]

\* Crawler.popLink
popLink(queue) == [link |-> Head(queue), rest |-> Tail(queue)]

\* a mutant: nothing is ever taken for a duplicate
duplicate_never(processed, canonical) == FALSE

\* processUrl: "if dir, duplicate := processedURLs[canonical]; duplicate"
duplicate(processed, canonical) == canonical \in DOMAIN processed

\* a mutant: the directory of a scraped key is never recorded
recordsKey_never(outcome) == FALSE

\* processUrl: "if err != nil { return err }; processedURLs[canonical] = dir"
recordsKey(outcome) == outcome = "ok"

\* how a scrape can end: the export fetch fails; the sheet's preview page
\* (its title) cannot be fetched; the directory or content file cannot be
\* written; or the record is persisted
Outcomes(docType) ==
    IF docType = "sheet" THEN {"ok", "fetch_fail", "title_fail", "write_fail"}
    ELSE {"ok", "fetch_fail", "write_fail"}

CrawlerInit ==
    /\ cpc = "start"
    /\ startURL \in RootURLs
    /\ pendingLinks = << >>
    /\ processedURLs = << >>
    /\ files = << >>
    /\ fetched = {}
    /\ refetched = {}
    /\ persisted = {}
    /\ repersisted = {}
    /\ failedKeys = {}
    /\ encountered = {}
    /\ last = NoOp

\* a mutant: the output directory is kept as an earlier run left it
RemoveAll_keep(fs) == fs

\* os.RemoveAll(c.outDir) and os.MkdirAll(c.outDir): the directories below
\* the output directory are gone
RemoveAll(fs) == << >>

\* Crawler.Run, up to the loop: the output directory is removed, and
\* id_map.json with it, and created
RunStart ==
    /\ cpc = "start"
    /\ \/ /\ cpc' = "loop"
          /\ files' = RemoveAll(files)
          /\ idMapFile' = NoFile
          /\ pendingLinks' = << Task(startURL, 0, outDir, 0) >>
       \/ /\ cpc' = "failed"
          /\ UNCHANGED << files, idMapFile, pendingLinks >>
    /\ UNCHANGED << startURL, processedURLs, fetched, refetched, persisted,
                    repersisted, failedKeys, encountered, last >>
    /\ UNCHANGED << up, drive, pa, pl, st >>

\* the loop body for an entry deeper than MaxDepth
Discard(task, rest) ==
    /\ pendingLinks' = rest
    /\ last' = Op("discard", NoKey, task.hops, 0, FALSE)
    /\ UNCHANGED << processedURLs, files, fetched, refetched, persisted,
                    repersisted, failedKeys, encountered >>

\* processUrl: canonical == ""
Skip(task, rest) ==
    /\ pendingLinks' = rest
    /\ last' = Op("skip", NoKey, task.hops, 0, FALSE)
    /\ UNCHANGED << processedURLs, files, fetched, refetched, persisted,
                    repersisted, failedKeys, encountered >>

\* processUrl: the key was processed before; only redirect metadata is written
Alias(task, rest, canonical) ==
    LET dir == processedURLs[canonical]
        targetRel == Rel(task.Parent, dir)
        meta == Metadata(Base(dir), extractID(canonical), task.Link, task.Depth,
                         canonical.type, TRUE, targetRel)
    IN  /\ files' = WriteDir(files, Join(task.Parent, RedirectName(dir)),
                             Entry("", << >>, meta))
        /\ pendingLinks' = rest
        /\ encountered' = encountered \cup {canonical}
        /\ last' = Op("alias", canonical, task.hops, 0, canonical \in persisted)
        /\ UNCHANGED << processedURLs, fetched, refetched, persisted,
                        repersisted, failedKeys >>

\* processUrl calling scrapeContent for a key not processed before; the
\* export and the title fetched, makeSlug panics on a short id and the
\* process dies before anything is written
Scrape(task, rest, canonical, fetchOutcome, hrefs) ==
    LET docType == canonical.type
        id == extractID(canonical)
        outcome == IF fetchOutcome \in {"ok", "write_fail"} /\ sliceOutOfRange(id)
                   THEN "panic" ELSE fetchOutcome
        links == IF canExtractLinks(docType) THEN ExtractLinks(hrefs, task.Depth)
                 ELSE << >>
        dir == Join(task.Parent, makeSlug(TitleOf(id), id))
        children == [i \in 1..Len(links) |->
                        Task(links[i].Link, links[i].Depth, dir, task.hops + 1)]
        meta == Metadata(TitleOf(id), id, task.Link, task.Depth, docType, FALSE, NoRel)
        queued == IF docType = "doc" THEN children ELSE << >>
    IN  /\ fetched' = fetched \cup {canonical}
        /\ refetched' = IF canonical \in fetched THEN refetched \cup {canonical}
                        ELSE refetched
        /\ encountered' = encountered \cup {canonical}
        /\ IF outcome = "ok"
             THEN /\ files' = WriteDir(files, dir, Entry(filename(docType), hrefs, meta))
                  /\ persisted' = persisted \cup {canonical}
                  /\ repersisted' = IF canonical \in persisted
                                    THEN repersisted \cup {canonical} ELSE repersisted
                  /\ pendingLinks' = rest \o queued
                  /\ UNCHANGED failedKeys
                  /\ last' = Op("scrape_ok", canonical, task.hops, Len(queued),
                                canonical \in persisted)
             ELSE /\ failedKeys' = failedKeys \cup {canonical}
                  /\ pendingLinks' = rest
                  /\ UNCHANGED << files, persisted, repersisted >>
                  /\ last' = Op(outcome, canonical, task.hops, 0, canonical \in persisted)
        /\ processedURLs' = IF recordsKey(outcome) THEN Put(processedURLs, canonical, dir)
                            ELSE processedURLs

processUrl(task, rest) ==
    LET canonical == CanonicalizeURL(task.Link).key
    IN  IF canonical = NoKey THEN Skip(task, rest)
        ELSE IF duplicate(processedURLs, canonical) THEN Alias(task, rest, canonical)
        ELSE \E outcome \in Outcomes(canonical.type) :
             \E hrefs \in (IF outcome = "ok" /\ canonical.type = "doc"
                           THEN Contents(startURL) ELSE { << >> }) :
                Scrape(task, rest, canonical, outcome, hrefs)

\* a mutant: the error of a failed scrape is returned by Run
aborts_onError(op) == op \in {"fetch_fail", "title_fail", "write_fail"}

\* Crawler.Run: "if err := c.processUrl(...); err != nil { slog.Warn(...);
\* continue }": no outcome of an iteration ends the loop
aborts(op) == FALSE

\* one iteration of the loop of Crawler.Run
CrawlStep ==
    /\ cpc = "loop"
    /\ pendingLinks # << >>
    /\ LET p == popLink(pendingLinks)
       IN  IF p.link.Depth > MaxDepth THEN Discard(p.link, p.rest)
           ELSE processUrl(p.link, p.rest)
    /\ cpc' = IF aborts(last'.op) THEN "failed"
              ELSE IF last'.op = "panic" THEN "panicked" ELSE cpc
    /\ UNCHANGED startURL
    /\ UNCHANGED << up, drive, idMapFile, pa, pl, st >>

\* the loop of Crawler.Run ends: the queue is empty
CrawlEnd ==
    /\ cpc = "loop"
    /\ pendingLinks = << >>
    /\ cpc' = "done"
    /\ UNCHANGED << startURL, pendingLinks, processedURLs, files, fetched, refetched,
                    persisted, repersisted, failedKeys, encountered, last >>
    /\ UNCHANGED << up, drive, idMapFile, pa, pl, st >>

Init ==
    /\ CrawlerInit
    /\ up = Idle
    /\ drive = Idle
    /\ idMapFile = NoFile
    /\ pa = Idle
    /\ pl = Idle
    /\ st = Idle

Next == RunStart \/ CrawlStep \/ CrawlEnd

Spec == Init /\ [][Next]_vars

\* Crawler.Run is one sequential loop: a step that can be taken is taken
SpecFair == Spec /\ WF_vars(Next)

\* the crawl of the second web
InitSlug ==
    /\ cpc = "start"
    /\ startURL \in SlugRootURLs
    /\ pendingLinks = << >>
    /\ processedURLs = << >>
    /\ files = << >>
    /\ fetched = {}
    /\ refetched = {}
    /\ persisted = {}
    /\ repersisted = {}
    /\ failedKeys = {}
    /\ encountered = {}
    /\ last = NoOp
    /\ up = Idle
    /\ drive = Idle
    /\ idMapFile = NoFile
    /\ pa = Idle
    /\ pl = Idle
    /\ st = Idle

SpecSlug == InitSlug /\ [][Next]_vars
-----------------------------------------------------------------------------
(***************************************************************************)
(* Properties of the crawler.                                              *)
(***************************************************************************)

KeyOf(entry) == Key(entry.meta.Type, entry.meta.ID)

\* the directories holding a non-alias record of key k
RecordsOf(k) ==
    { p \in DOMAIN files : ~files[p].meta.IsRedirect /\ KeyOf(files[p]) = k }

AliasDirs == { p \in DOMAIN files : files[p].meta.IsRedirect }

FetchOps == {"scrape_ok", "fetch_fail", "title_fail", "write_fail"}

C2_Terminates == <>(cpc \in {"done", "failed"})

\* C2 witness: a crawl that ended after a failed scrape and a back-link.
C2_EndedAfterFailureAndCycle ==
    /\ cpc = "done"
    /\ failedKeys # {}
    /\ \E p \in AliasDirs : KeyOf(files[p]) = Key("doc", 1)

\* C3: no reference more than MaxDepth hops away from the root is fetched or
\* persisted, as content or as an alias record.
C3_NeverBeyondMaxDepth ==
    (last.op \in FetchOps \cup {"alias"}) => (last.hops <= MaxDepth)

\* C4, as claimed: the export of a key is fetched at most once in any crawl.
C4_FetchAtMostOnce == refetched = {}

\* C4, amended: no export fetch is attempted for a key whose record is
\* persisted, and a key is fetched a second time only after a scrape of it
\* failed.
C4_NoFetchOncePersisted ==
    /\ (last.op \in FetchOps) => ~last.seen
    /\ refetched \subseteq failedKeys

\* C4 witness: a key whose first scrape failed was fetched again for a later
\* reference, and persisted then.
C4_RefetchedAfterFailure ==
    \E k \in refetched : k \in persisted /\ k \in failedKeys

\* C12: an iteration whose export fetch fails removes its entry from the
\* queue and changes nothing else (no record, no key, no child), the loop goes
\* on, and the crawl ends with Run returning nil after the queue is drained;
\* Run returns an error only before the first fetch, when the output
\* directory cannot be prepared.
C12_FetchFailureSkipsReference ==
    /\ [][ (last'.op = "fetch_fail" /\ cpc = "loop" /\ pendingLinks' # pendingLinks) =>
              /\ cpc' = "loop"
              /\ pendingLinks' = Tail(pendingLinks)
              /\ files' = files
              /\ processedURLs' = processedURLs
              /\ persisted' = persisted
          ]_vars
    /\ []((cpc = "failed") => (fetched = {}))
    /\ []((cpc = "done") => (pendingLinks = << >>))
    /\ ((last.op = "fetch_fail") ~> (cpc = "done"))

\* C12 witness: the crawl ended; the fetch of one key failed and a record was
\* persisted for a key that was processed after it.
C12_FailedFetchThenPersisted ==
    /\ cpc = "done"
    /\ Key("doc", 2) \in failedKeys \ persisted
    /\ Key("sheet", 3) \in persisted
    /\ Key("doc", 1) \in persisted

\* the clean URLs of the hyperlinks that hold, once unwrapped, a document or
\* spreadsheet address in the clear, in the order of the markup
RECURSIVE InScopeRefs(_)
InScopeRefs(hrefs) ==
    IF hrefs = << >> THEN << >>
    ELSE LET u == Unwrap(Head(hrefs))
         IN  (IF u.enc = 0 /\ u.kind \in {"document", "spreadsheets"}
              THEN << u >> ELSE << >>) \o InScopeRefs(Tail(hrefs))

\* C22: when a document is scraped, ExtractLinks yields one reference for
\* each hyperlink of its markup that canonicalizes to a non-empty key, in
\* the order of the markup, and nothing for any other hyperlink: the
\* references appended to the queue carry exactly the clean URLs of the
\* in-scope hyperlinks, and markup without one appends nothing and the
\* scrape still succeeds.
C22_OneReferencePerInScopeLink ==
    [][ (last'.op = "scrape_ok" /\ last'.key.type = "doc" /\ cpc = "loop"
            /\ pendingLinks # << >>) =>
           LET hrefs == files'[processedURLs'[last'.key]].hrefs
               refs == InScopeRefs(hrefs)
               rest == Tail(pendingLinks)
           IN  /\ Len(pendingLinks') = Len(rest) + Len(refs)
               /\ last'.queued = Len(refs)
               /\ \A i \in 1..Len(refs) : pendingLinks'[Len(rest) + i].Link = refs[i]
               /\ \A i \in 1..Len(rest) : pendingLinks'[i] = rest[i]
      ]_vars

\* C22 witness: a document was scraped whose markup links out of scope and
\* then to a sheet; one reference, to the sheet, was queued.
C22_OutOfScopeLinkDropped ==
    /\ last.op = "scrape_ok"
    /\ last.key = Key("doc", 2)
    /\ files[processedURLs[last.key]].hrefs =
          << URL(0, "other", 9, "none"), URL(1, "spreadsheets", 3, "edit") >>
    /\ last.queued = 1
    /\ pendingLinks[Len(pendingLinks)].Link = URL(0, "spreadsheets", 3, "edit")

\* C25, as claimed: when the record of a queue entry of depth d is persisted,
\* every reference appended to the queue has depth d + 1 and the record's
\* directory as parent, and nothing is appended for a sheet.
C25_ChildrenOneDeeper ==
    [][ (last'.op = "scrape_ok" /\ cpc = "loop" /\ pendingLinks # << >>) =>
           LET task == Head(pendingLinks)
               dir == processedURLs'[last'.key]
               rest == Tail(pendingLinks)
           IN  /\ (last'.key.type = "sheet") => (pendingLinks' = rest)
               /\ \A i \in (Len(rest) + 1)..Len(pendingLinks') :
                      /\ pendingLinks'[i].Depth = task.Depth + 1
                      /\ pendingLinks'[i].Parent = dir
      ]_vars

\* C26, as claimed: the queue is first-in first-out, so its entries are in
\* non-decreasing order of depth and of distance from the root, and while
\* no scrape has failed the depth stored in the record just persisted is
\* the number of links on the shortest path from the root to it.
C26_DepthIsShortestPath ==
    /\ \A i, j \in 1..Len(pendingLinks) :
          (i < j) => /\ pendingLinks[i].Depth <= pendingLinks[j].Depth
                     /\ pendingLinks[i].hops <= pendingLinks[j].hops
    /\ (failedKeys = {} /\ last.op = "scrape_ok") =>
          files[processedURLs[last.key]].meta.Depth = last.hops

\* the directory a relative path leads to from base: the ".." steps are
\* taken upwards, then the names are descended
Resolve(base, rel) == SubSeq(base, 1, Len(base) - rel.up) \o rel.down

-----------------------------------------------------------------------------
(***************************************************************************)
(* CanonicalizeURL as a function of any string: SpecCanon applies it to a  *)
(* raw URL and then to the clean URL it returned.                          *)
(***************************************************************************)

\* the strings CanonicalizeURL is given: a document, spreadsheet or
\* presentation address with a view-mode suffix, a tracking query or a
\* fragment; a URL of another site; a string that is no URL; the empty
\* string; a redirect URL without q parameter; each alone or inside up to
\* MaxWrap redirect wrappers, which carry their target in the clear or
\* escaped once per level (a wrapper around "" is a wrapper with an empty q)
RawURLs ==
    LET tails == {"none", "edit", "view", "preview", "edit?usp=sharing",
                  "edit#heading=h.1", "?usp=sharing"}
        inner == { URL(0, k, i, v) : k \in {"document", "spreadsheets", "presentation"},
                                      i \in {1, 2}, v \in tails }
                 \cup { URL(0, k, 0, "none") : k \in {"other", "malformed", "empty", "noq"} }
    IN  UNION { { [u EXCEPT !.wrap = w, !.enc = e, !.scheme = s] :
                     e \in {0, w}, s \in {"https", "http"} } :
                   u \in inner, w \in 0..MaxWrap }

\* CanonicalizeURL is called: on the raw URL, then on the clean URL the
\* first call returned; first is the result of the first call
Canonicalize ==
    /\ cpc \in {"raw", "clean"}
    /\ LET arg == IF cpc = "raw" THEN startURL ELSE last.res.clean
           res == CanonicalizeURL(arg)
       IN  last' = [op |-> "CanonicalizeURL", arg |-> arg, res |-> res,
                    first |-> IF cpc = "raw" THEN res ELSE last.first]
    /\ cpc' = IF cpc = "raw" THEN "clean" ELSE "done"
    /\ UNCHANGED << startURL, pendingLinks, processedURLs, files, fetched, refetched,
                    persisted, repersisted, failedKeys, encountered >>
    /\ UNCHANGED << up, drive, idMapFile, pa, pl, st >>

InitCanon ==
    /\ cpc = "raw"
    /\ startURL \in RawURLs
    /\ pendingLinks = << >>
    /\ processedURLs = << >>
    /\ files = << >>
    /\ fetched = {}
    /\ refetched = {}
    /\ persisted = {}
    /\ repersisted = {}
    /\ failedKeys = {}
    /\ encountered = {}
    /\ last = NoOp
    /\ up = Idle
    /\ drive = Idle
    /\ idMapFile = NoFile
    /\ pa = Idle
    /\ pl = Idle
    /\ st = Idle

SpecCanon == InitCanon /\ [][Canonicalize]_vars

\* the URLs that differ from u only in redirect wrapping, view-mode suffix,
\* tracking query or fragment
Variants(u) ==
    { v \in RawURLs : v.kind = u.kind /\ v.id = u.id /\ v.scheme = u.scheme }

\* C18, as claimed: every URL that differs from the raw URL only in redirect
\* wrapping, tracking query, view-mode suffix or fragment gets the identity
\* key CanonicalizeURL returned for the raw URL.
C18_VariantsShareKey ==
    (cpc # "raw") =>
        \A v \in Variants(startURL) : CanonicalizeURL(v).key = last.first.key

\* C18, amended: the same, for the URLs whose address three unwrapping passes
\* leave unescaped (each pass decodes twice): every wrapping up to six
\* levels deep, and a deeper one that carries its target in the clear.
C18_UnwrappedVariantsShareKey ==
    (cpc # "raw" /\ Unwrap(startURL).enc = 0) =>
        \A v \in Variants(startURL) :
            (Unwrap(v).enc = 0) => (CanonicalizeURL(v).key = last.first.key)

\* C18 witness: a document address with a tracking query, inside three
\* escaped wrappers, got the key of the document.
C18_WrappedTrackedKeyed ==
    /\ cpc # "raw"
    /\ startURL = [URL(3, "document", 1, "edit?usp=sharing") EXCEPT !.enc = 3]
    /\ last.first.key = Key("doc", 1)

\* C19, as claimed: for every raw URL the second application, to the clean
\* URL of the first, returns the pair the first returned.
C19_Idempotent == (cpc = "done") => (last.res = last.first)

\* C19, amended: the same, for a raw URL inside at most three wrappers, the
\* number of passes of the loop; a URL wrapped deeper comes back with a
\* residual wrapper, which the second application unwraps further.
C19_IdempotentUpToThreeLevels ==
    (cpc = "done") =>
        /\ (startURL.wrap <= 3) => (last.res = last.first)
        /\ (startURL.wrap > 3 /\ startURL.kind # "empty") =>
              (last.res.clean.wrap < last.first.clean.wrap)

\* C19 witness: both applications are made on a sheet address inside three
\* escaped wrappers.
C19_ThreeLevelsTwice ==
    /\ cpc = "done"
    /\ startURL = [URL(3, "spreadsheets", 2, "view") EXCEPT !.enc = 3]
    /\ last.arg = URL(0, "spreadsheets", 2, "view")
    /\ last.res.key = Key("sheet", 2)

\* C20: CanonicalizeURL returns a key and a clean URL for every string; the
\* key is empty exactly when the clean URL holds no unescaped document or
\* spreadsheet address, and names the kind and the id of that address
\* otherwise; the clean URL is what the unwrapping loop left.
C20_TotalAndClassified ==
    (cpc # "raw") =>
        LET key == last.first.key
            clean == last.first.clean
            inScope == clean.enc = 0 /\ clean.kind \in {"document", "spreadsheets"}
        IN  /\ DOMAIN last.first = {"key", "clean"}
            /\ clean = Unwrap(startURL)
            /\ (key = NoKey) <=> ~inScope
            /\ inScope => key = Key(IF clean.kind = "document" THEN "doc" ELSE "sheet",
                                    clean.id)

\* C20 witness: the calls were made on a wrapper with an empty q; the
\* wrapper itself came back, with no key.
C20_EmptyQueryUnclassified ==
    /\ cpc = "done"
    /\ startURL = URL(1, "empty", 0, "none")
    /\ last.first = [key |-> NoKey, clean |-> startURL]

\* C21, as claimed: CanonicalizeURL unwraps at most three redirect levels,
\* and for a raw URL wrapped more than three levels deep it returns the
\* residual wrapper as clean URL, with the empty key.
C21_ResidualWrapperUnclassified ==
    (cpc # "raw" /\ startURL.wrap > MaxUnwrap) =>
        /\ last.first.clean.wrap = startURL.wrap - MaxUnwrap
        /\ last.first.key = NoKey

-----------------------------------------------------------------------------
(***************************************************************************)
(* Workspaces the crawler leaves behind.  Each is the value of files at    *)
(* the end of a run of Spec; they are built with the crawler's own         *)
(* constructors.                                                           *)
(***************************************************************************)
U1 == URL(0, "document", 1, "edit")
U1v == URL(1, "document", 1, "view")
U2 == URL(0, "document", 2, "edit")
U3 == URL(1, "spreadsheets", 3, "edit")
UX == URL(0, "other", 9, "none")
U2h == Http(U2)

\* the reference ExtractLinks queues for a hyperlink: its clean URL
Ref(href) == CanonicalizeURL(href).clean

\* the record scrapeContent persists for a reference found in parent
Record(parent, link, hrefs) ==
    LET canonical == CanonicalizeURL(link).key
        id == extractID(canonical)
    IN  [dir |-> Join(parent, makeSlug(TitleOf(id), id)),
         entry |-> Entry(filename(canonical.type), hrefs,
                         Metadata(TitleOf(id), id, link, 0, canonical.type,
                                  FALSE, NoRel))]

\* the alias record processUrl writes for a reference, found in parent, to a
\* key whose record is in dir
AliasRecord(parent, link, dir) ==
    LET canonical == CanonicalizeURL(link).key
    IN  [dir |-> Join(parent, RedirectName(dir)),
         entry |-> Entry("", << >>,
                         Metadata(Base(dir), extractID(canonical), link, 0,
                                  canonical.type, TRUE, Rel(parent, dir)))]

\* the root is out of scope: nothing is written
WsEmpty == << >>

\* the root is a sheet
WsSheet ==
    LET r3 == Record(outDir, U3, << >>)
    IN  WriteDir(<< >>, r3.dir, r3.entry)

\* document 1 links to document 2 and to sheet 3; document 2 links back
WsCycle ==
    LET r1 == Record(outDir, U1, << U2, U3 >>)
        r2 == Record(r1.dir, Ref(U2), << U1v >>)
        r3 == Record(r1.dir, Ref(U3), << >>)
        a1 == AliasRecord(r2.dir, Ref(U1v), r1.dir)
    IN  (r1.dir :> r1.entry) @@ (r2.dir :> r2.entry) @@ (r3.dir :> r3.entry)
           @@ (a1.dir :> a1.entry)

\* the same, but the scrape of document 2 failed
WsPartial ==
    LET r1 == Record(outDir, U1, << U2, U3 >>)
        r3 == Record(r1.dir, Ref(U3), << >>)
    IN  (r1.dir :> r1.entry) @@ (r3.dir :> r3.entry)

\* document 1 links to document 2 twice; document 2 links out of scope and
\* to sheet 3
WsTwice ==
    LET r1 == Record(outDir, U1, << U2, U2 >>)
        r2 == Record(r1.dir, Ref(U2), << UX, U3 >>)
        a2 == AliasRecord(r1.dir, Ref(U2), r2.dir)
        r3 == Record(r2.dir, Ref(U3), << >>)
    IN  (r1.dir :> r1.entry) @@ (r2.dir :> r2.entry) @@ (a2.dir :> a2.entry)
           @@ (r3.dir :> r3.entry)

\* document 1 links to document 2 with an http:// address and to sheet 3
WsHttp ==
    LET r1 == Record(outDir, U1, << U2h, U3 >>)
        r2 == Record(r1.dir, Ref(U2h), << >>)
        r3 == Record(r1.dir, Ref(U3), << >>)
    IN  (r1.dir :> r1.entry) @@ (r2.dir :> r2.entry) @@ (r3.dir :> r3.entry)

Workspaces == { WsEmpty, WsSheet, WsCycle, WsPartial, WsTwice, WsHttp }

\* the crawler has run and is gone; only its workspace matters
CrawlerGone(fs) ==
    /\ cpc = "done"
    /\ startURL = U1
    /\ pendingLinks = << >>
    /\ processedURLs = << >>
    /\ files = fs
    /\ fetched = {}
    /\ refetched = {}
    /\ persisted = {}
    /\ repersisted = {}
    /\ failedKeys = {}
    /\ encountered = {}
    /\ last = NoOp

-----------------------------------------------------------------------------
(***************************************************************************)
(* Crawler.Run over an output directory an earlier run left: its records,  *)
(* and id_map.json, whole or cut short, if its uploader got that far.      *)
(***************************************************************************)

\* the earlier run left at least one record and an id_map.json
InitRecrawl ==
    /\ cpc = "start"
    /\ startURL \in RootURLs
    /\ pendingLinks = << >>
    /\ processedURLs = << >>
    /\ fetched = {}
    /\ refetched = {}
    /\ persisted = {}
    /\ repersisted = {}
    /\ failedKeys = {}
    /\ encountered = {}
    /\ last = NoOp
    /\ files \in Workspaces \ {WsEmpty}
    /\ idMapFile \in {Partial, File(Key("sheet", 3) :> 101)}
    /\ up = Idle
    /\ drive = Idle
    /\ pa = Idle
    /\ pl = Idle
    /\ st = Idle

SpecRecrawl == InitRecrawl /\ [][Next]_vars

\* C32: once Crawler.Run is past its first lines, and so when it has
\* ended, the output directory holds no id_map.json and only records of
\* this crawl: every directory holds the record persisted for a key of
\* this crawl, or an alias record written for such a key below a record of
\* this crawl; nothing of what the earlier run left is there.
C32_OnlyThisCrawlsRecords ==
    (cpc \in {"loop", "done"}) =>
        /\ idMapFile = NoFile
        /\ \A p \in DOMAIN files :
              LET k == KeyOf(files[p])
                  dirs == { processedURLs[j] : j \in DOMAIN processedURLs }
              IN  /\ k \in persisted
                  /\ k \in DOMAIN processedURLs
                  /\ IF files[p].meta.IsRedirect
                     THEN SubSeq(p, 1, Len(p) - 1) \in dirs \cup {outDir}
                     ELSE processedURLs[k] = p

\* C32 witness: the crawl of a sheet over the output directory of an earlier
\* run has ended, and the output directory holds the sheet's record alone;
\* and the crawl of a root out of scope has ended, and it holds nothing.
C32_RecrawledOverOldWorkspace ==
    /\ cpc = "done"
    /\ idMapFile = NoFile
    /\ \/ startURL = U3 /\ files = WsSheet
       \/ startURL = UX /\ files = WsEmpty

(***************************************************************************)
(* filepath.WalkDir: a directory, then its entries in the order of their   *)
(* names.                                                                  *)
(***************************************************************************)
Children(fs, dir) ==
    { p \in DOMAIN fs : Len(p) = Len(dir) + 1 /\ SubSeq(p, 1, Len(dir)) = dir }

\* directories in the order of their names: by slug, a "-redirect" name
\* after the name it extends
RECURSIVE SortDirs(_)
SortDirs(S) ==
    IF S = {} THEN << >>
    ELSE LET m == CHOOSE x \in S : \A y \in S :
                     \/ Base(x).id6 < Base(y).id6
                     \/ Base(x).id6 = Base(y).id6 /\ (Base(x).redirect => Base(y).redirect)
         IN  << m >> \o SortDirs(S \ {m})

RECURSIVE WalkDir(_, _)
WalkDir(fs, todo) ==
    IF todo = << >> THEN << >>
    ELSE << Head(todo) >> \o WalkDir(fs, SortDirs(Children(fs, Head(todo))))
                          \o WalkDir(fs, Tail(todo))

\* Uploader.discoverDirectories: the directories holding a metadata.json
discoverDirectories(fs) ==
    SelectSeq(WalkDir(fs, SortDirs(Children(fs, outDir))),
              LAMBDA d : fs[d].meta # NoMeta)

-----------------------------------------------------------------------------
(***************************************************************************)
(* The uploader (Uploader.Run).                                            *)
(***************************************************************************)

UploadStats(t, f, s) == [TotalUploaded |-> t, Failed |-> f, Skipped |-> s]

\* a Go map read: the zero value for a missing key
Lookup(m, k) == IF k \in DOMAIN m THEN m[k] ELSE 0

\* Uploader.mimeTypes
mimeTypes(type) ==
    IF type = "doc" THEN "document" ELSE IF type = "sheet" THEN "spreadsheet" ELSE ""

\* Uploader.getContentFileName
getContentFileName(fileType) ==
    IF fileType = "doc" THEN "content.html"
    ELSE IF fileType = "sheet" THEN "content.csv" ELSE ""

\* the destination Drive: how many folders carry the configured name, and
\* the files created, by id; a document's links are its linked text runs
Drive(n, fs) == [folders |-> n, files |-> fs]

DriveFile(name, mimeType, links, parentID) ==
    [Name |-> name, MimeType |-> mimeType, links |-> links, Parents |-> parentID]

\* the id Drive gives the next file it creates
NewID(drv) == 101 + Cardinality(DOMAIN drv.files)

\* a mutant: the folder is created without a search
createDriveFolder_unsought(drv) == [drv EXCEPT !.folders = @ + 1]

\* Uploader.createDriveFolder: the folder found by name, or a new one
createDriveFolder(drv) == [drv EXCEPT !.folders = IF @ > 0 THEN @ ELSE 1]

\* the id createDriveFolder returns: r.Files[0].Id, or created.Id; the
\* folders of the name are numbered from 1 in the order of the listing
folderId(drv) == IF drv.folders > 0 THEN 1 ELSE 0

\* Uploader.uploadFile: the content file is opened and sent to Drive
uploadFile(drv, fs, dir, metadata, parentID, outcome) ==
    IF mimeTypes(metadata.Type) = ""
       \/ fs[dir].content # getContentFileName(metadata.Type)
       \/ outcome # "ok"
    THEN [ok |-> FALSE, id |-> 0, drive |-> drv]
    ELSE [ok |-> TRUE, id |-> NewID(drv),
          drive |-> [drv EXCEPT !.files =
                        Put(@, NewID(drv),
                            DriveFile(metadata.Title, mimeTypes(metadata.Type),
                                      fs[dir].hrefs, parentID))]]

\* a mutant: the key is stored whatever the upload returned
storesKey_always(ok) == TRUE

\* Uploader.processDirectory: "if err != nil { return ... }; idMap[key] = newID"
storesKey(ok) == ok

\* Uploader.Run: "if metadata.IsRedirect { stats.Skipped++; continue }"
skipsRecord(metadata) == metadata.IsRedirect

\* the body of the loop of Uploader.Run for one directory whose metadata
\* loaded: the locals u of Run and the Drive, after it
UploadDir(u, drv, fs, dir, outcome) ==
    LET metadata == fs[dir].meta
        stats == u.stats
        sent == uploadFile(drv, fs, dir, metadata, u.parentID, outcome)
        failed == getContentFileName(metadata.Type) = "" \/ ~sent.ok
        key == Key(metadata.Type, metadata.ID)
    IN  IF skipsRecord(metadata)
        THEN [u |-> [u EXCEPT !.i = @ + 1,
                              !.stats = UploadStats(stats.TotalUploaded, stats.Failed,
                                                    stats.Skipped + 1)],
              drive |-> drv]
        ELSE [u |-> [u EXCEPT
                       !.i = @ + 1,
                       !.idMap = IF storesKey(~failed) THEN Put(@, key, sent.id) ELSE @,
                       !.stats = IF failed
                                 THEN UploadStats(stats.TotalUploaded, stats.Failed + 1,
                                                  stats.Skipped)
                                 ELSE UploadStats(stats.TotalUploaded + 1, stats.Failed,
                                                  stats.Skipped),
                       !.published = IF sent.ok THEN @ \cup {dir} ELSE @,
                       !.unpublished = IF sent.ok THEN @ ELSE @ \cup {dir}],
              drive |-> sent.drive]

\* the locals of Uploader.Run when its loop begins; published and unpublished
\* are ghosts: the directories whose upload call succeeded, and failed
UploaderLoop(parentID, dirs) ==
    [pc |-> "loop", parentID |-> parentID, dirs |-> dirs, i |-> 1, idMap |-> << >>,
     stats |-> UploadStats(0, 0, 0), published |-> {}, unpublished |-> {}]

\* Uploader.Run up to its loop: createDriveFolder and discoverDirectories
UploadStart ==
    /\ up.pc = "start"
    /\ \E outcome \in {"ok", "folder_fail", "walk_fail"} :
          /\ drive' = IF outcome = "folder_fail" THEN drive ELSE createDriveFolder(drive)
          /\ up' = IF outcome = "ok"
                   THEN UploaderLoop(folderId(drive'), discoverDirectories(files))
                   ELSE [pc |-> "failed"]
    /\ UNCHANGED idMapFile
    /\ UNCHANGED << crawlerVars, pa, pl, st >>

\* one iteration of the loop of Uploader.Run
UploadNext ==
    /\ up.pc = "loop"
    /\ up.i <= Len(up.dirs)
    /\ \E outcome \in {"ok", "meta_fail", "upload_fail"} :
          IF outcome = "meta_fail" \/ ~Decodes(files[up.dirs[up.i]].meta)
          THEN /\ up' = [up EXCEPT !.pc = "failed"]
               /\ UNCHANGED drive
          ELSE LET r == UploadDir(up, drive, files, up.dirs[up.i], outcome)
               IN  /\ up' = r.u
                   /\ drive' = r.drive
    /\ UNCHANGED idMapFile
    /\ UNCHANGED << crawlerVars, pa, pl, st >>

\* Uploader.writeIDMap, and the return of Uploader.Run
UploadEnd ==
    /\ up.pc = "loop"
    /\ up.i > Len(up.dirs)
    /\ IF up.idMap = << >>
       THEN /\ up' = [up EXCEPT !.pc = "done"]
            /\ UNCHANGED idMapFile
       ELSE \/ /\ idMapFile' = File(up.idMap)
               /\ up' = [up EXCEPT !.pc = "done"]
            \/ /\ up' = [up EXCEPT !.pc = "failed"]
               /\ UNCHANGED idMapFile
    /\ UNCHANGED drive
    /\ UNCHANGED << crawlerVars, pa, pl, st >>

InitUpload ==
    /\ \E fs \in Workspaces : CrawlerGone(fs)
    /\ up = [pc |-> "start"]
    /\ drive \in { Drive(0, << >>), Drive(1, << >>) }
    /\ idMapFile = NoFile
    /\ pa = Idle
    /\ pl = Idle
    /\ st = Idle

NextUpload == UploadStart \/ UploadNext \/ UploadEnd

SpecUpload == InitUpload /\ [][NextUpload]_vars

\* the keys of id_map.json
MappedKeys == IF Readable(idMapFile) THEN DOMAIN idMapFile.map ELSE {}

\* C5: when Uploader.Run returns nil, the keys of the identity mapping it
\* built (and wrote, if there are any) are exactly the keys of the non-alias
\* records whose upload call succeeded: every directory of the workspace was
\* visited; an alias record was never uploaded; a record whose upload failed
\* has no key; every uploaded record has its key, mapped to the file created.
C5_IdMapExactlyPublished ==
    (up.pc = "done") =>
        /\ MappedKeys = { KeyOf(files[d]) : d \in up.published }
        /\ DOMAIN up.idMap = MappedKeys
        /\ up.published \cup up.unpublished = DOMAIN files \ AliasDirs
        /\ up.published \cap up.unpublished = {}
        /\ \A d \in up.unpublished : KeyOf(files[d]) \notin MappedKeys
        /\ \A d \in up.published :
              /\ idMapFile.map[KeyOf(files[d])] \in DOMAIN drive.files
              /\ drive.files[idMapFile.map[KeyOf(files[d])]].MimeType
                    = mimeTypes(files[d].meta.Type)

\* C5 witness: a run that uploaded a document and a sheet, failed to upload
\* another document, skipped an alias record, and wrote the mapping.
C5_PublishedFailedAndSkipped ==
    /\ up.pc = "done"
    /\ idMapFile # NoFile
    /\ \E d \in up.unpublished : files[d].meta.Type = "doc"
    /\ \E d \in up.published : files[d].meta.Type = "doc"
    /\ \E d \in up.published : files[d].meta.Type = "sheet"
    /\ up.stats.Skipped > 0

-----------------------------------------------------------------------------
(***************************************************************************)
(* The patcher (Patcher.Run).                                              *)
(***************************************************************************)

\* NewPatcher(ctx, projectID, 1100*time.Millisecond, 6, out)
maxRetryAttempts == 6

PatchStats(p, l, s, f) ==
    [DocsProcessed |-> p, LinksPatched |-> l, DocsSkipped |-> s, Failures |-> f]

\* Patcher.linkRe: the hyperlinks of content.html in which the pattern finds
\* an https:// document or spreadsheet address in the clear, bare or inside
\* redirect wrappers
linkRe(hrefs) ==
    SelectSeq(hrefs, LAMBDA h : /\ h.kind \in {"document", "spreadsheets"}
                                /\ h.scheme = "https"
                                /\ h.enc = 0)

\* buildURLMap's typeMap: the key of a match
typeMap(kind, oldID) == IF kind = "document" THEN Key("doc", oldID) ELSE Key("sheet", oldID)

\* Patcher.stripQuery of a match: the address up to the id
stripQuery(match) == URL(0, match.kind, match.id, "none")

\* "https://docs.google.com/%s/d/%s/edit"
newURL(kind, newID) == URL(0, kind, newID, "edit")

\* a mutant: a match is mapped whether or not its key is in the mapping
mapped_any(idMap, oldKey) == TRUE

\* buildURLMap: "newID, exists := idMap[oldKey]; if !exists { continue }"
mapped(idMap, oldKey) == oldKey \in DOMAIN idMap

\* Patcher.buildURLMap
buildURLMap(hrefs, idMap) ==
    LET matches == linkRe(hrefs)
        kept == { j \in 1..Len(matches) :
                     mapped(idMap, typeMap(matches[j].kind, matches[j].id)) }
    IN  [oldURL \in { stripQuery(matches[j]) : j \in kept } |->
            newURL(oldURL.kind, Lookup(idMap, typeMap(oldURL.kind, oldURL.id)))]

\* canonicalLink: the redirector unwrapped, the query dropped, and the view
\* suffix too if tidyRE matches: it is anchored at https://docs.google.com/
canonicalLink(raw) ==
    LET u == Unwrap(raw)
    IN  IF u.wrap = 0 /\ u.enc = 0 /\ u.scheme = "https"
           /\ u.kind \in {"document", "spreadsheets"}
        THEN URL(0, u.kind, u.id, "none")
        ELSE u

\* one UpdateTextStyle request: the text run addressed and its new link; old
\* is a ghost, the link the run carried
Request(index, url, old) == [index |-> index, url |-> url, old |-> old]

\* a mutant: every linked text run gets an edit, to its own link when the
\* table has no entry for it
buildPatchRequests_all(links, urlMap) ==
    [j \in 1..Len(links) |->
        Request(j, IF canonicalLink(links[j]) \in DOMAIN urlMap
                   THEN urlMap[canonicalLink(links[j])] ELSE links[j], links[j])]

\* Patcher.buildPatchRequests over the linked text runs of a document
buildPatchRequests(links, urlMap) ==
    LET hit == SelectSeq([j \in 1..Len(links) |-> j],
                         LAMBDA j : canonicalLink(links[j]) \in DOMAIN urlMap)
    IN  [n \in 1..Len(hit) |->
            Request(hit[n], urlMap[canonicalLink(links[hit[n]])], links[hit[n]])]

\* Documents.BatchUpdate, applied
BatchUpdate(drv, docID, requests) ==
    [drv EXCEPT !.files[docID].links =
        [j \in DOMAIN @ |->
            IF \E n \in 1..Len(requests) : requests[n].index = j
            THEN requests[CHOOSE n \in 1..Len(requests) : requests[n].index = j].url
            ELSE @[j]]]

\* a mutant: every failed attempt is retried
retryable_any(res) == TRUE

\* executeWithRetry: "Only retry on 503 backend errors"
retryable(res) == res = "503"

\* executeWithRetry: "const base = time.Second", in milliseconds
base == 1000

\* a mutant: the delay grows by one base per attempt
delay_linear(i) == base * (i + 1)

\* executeWithRetry: "delay := base * time.Duration(math.Pow(2, float64(i)))"
delay(i) == base * 2^i

\* "jitter := time.Duration(rand.Int63n(int64(delay / 2)))": a number from 0
\* up to, not including, half the delay; here the least and the greatest
Jitters(d) == {0, (d \div 2) - 1}

\* what executeWithRetry last slept for: time.Sleep(delay + jitter)
Slept(d, jitter) == [delay |-> d, jitter |-> jitter]

\* the remote calls and the sleeps of a run, in order (a ghost)
Call(ev, docID, requests, res) ==
    [ev |-> ev, doc |-> docID, requests |-> requests, res |-> res]
Get(docID, res) == Call("Documents.Get", docID, << >>, res)
Sleep(why, n) == [ev |-> "Sleep", why |-> why, n |-> n]

\* a mutant: the batch carries the first edit only
Retry_first(docID, requests, i, calls, unavailable) ==
    [doc |-> docID, requests |-> IF requests = << >> THEN << >> ELSE << requests[1] >>,
     i |-> i, calls |-> calls, unavailable |-> unavailable]

\* executeWithRetry in progress: the loop variable i; calls and unavailable
\* are ghosts, the invocations of fn so far and the 503 answers among them
Retry(docID, requests, i, calls, unavailable) ==
    [doc |-> docID, requests |-> requests, i |-> i, calls |-> calls,
     unavailable |-> unavailable]

\* the locals of Patcher.Run when the walk begins
PatcherWalk(idMap, paths) ==
    [pc |-> "walk", idMap |-> idMap, paths |-> paths, i |-> 1,
     stats |-> PatchStats(0, 0, 0, 0), cur |-> Retry(0, << >>, 0, 0, 0), res |-> "none",
     slept |-> Slept(0, 0), log |-> << >>]

\* a mutant: a record passed over is counted as processed
Skipped_processed(p) ==
    [p EXCEPT !.i = @ + 1, !.stats.DocsProcessed = @ + 1]

\* processDocument returns: the statistics, the sleep, the next path
Skipped(p) ==
    [p EXCEPT !.i = @ + 1, !.stats.DocsSkipped = @ + 1]

\* a mutant: a document's failure ends the walk and fails the step
Failed_abort(p, events) ==
    [p EXCEPT !.pc = "failed", !.i = @ + 1, !.stats.Failures = @ + 1,
              !.log = @ \o events]

\* processAllDocs: "stats.Failures++; return nil"
Failed(p, events) ==
    [p EXCEPT !.pc = "walk", !.i = @ + 1, !.stats.Failures = @ + 1,
              !.log = @ \o events]

\* a mutant: the edits of an accepted batch are not counted
Processed_uncounted(p, n, events) ==
    [p EXCEPT !.pc = "walk", !.i = @ + 1, !.stats.DocsProcessed = @ + 1,
              !.log = @ \o events]
Processed(p, n, events) ==
    [p EXCEPT !.pc = "walk", !.i = @ + 1, !.stats.DocsProcessed = @ + 1,
              !.stats.LinksPatched = @ + n, !.log = @ \o events]

PatcherOnly == UNCHANGED << crawlerVars, up, idMapFile, pl, st >>

\* Patcher.Run: loadIDMap; without a mapping the step returns nil
PatchStart ==
    /\ pa.pc = "start"
    /\ pa' = IF ~Readable(idMapFile) THEN [pc |-> "done"]
             ELSE PatcherWalk(idMapFile.map, discoverDirectories(files))
    /\ UNCHANGED drive
    /\ PatcherOnly

\* processDocument for the next metadata.json, up to executeWithRetry
PatchDocument ==
    /\ pa.pc = "walk"
    /\ pa.i <= Len(pa.paths)
    /\ \E outcome \in {"ok", "meta_fail", "html_fail", "get_fail"} :
          LET dir == pa.paths[pa.i]
              metadata == files[dir].meta
              newDocID == Lookup(pa.idMap, Key("doc", metadata.ID))
              urlMap == buildURLMap(files[dir].hrefs, pa.idMap)
              requests == buildPatchRequests(drive.files[newDocID].links, urlMap)
          IN  pa' =
                IF outcome = "meta_fail" \/ ~Decodes(metadata) THEN Failed(pa, << >>)
                ELSE IF metadata.IsRedirect THEN Skipped(pa)
                ELSE IF metadata.Type # "doc" THEN Skipped(pa)
                ELSE IF newDocID = 0 THEN Skipped(pa)
                ELSE IF outcome = "html_fail" THEN Failed(pa, << >>)
                ELSE IF DOMAIN urlMap = {} THEN Processed(pa, 0, << >>)
                ELSE IF outcome = "get_fail" \/ newDocID \notin DOMAIN drive.files
                     THEN Failed(pa, << Get(newDocID, "error") >>)
                ELSE IF requests = << >>
                     THEN Processed(pa, 0, << Get(newDocID, "ok"), Sleep("rate", 0) >>)
                ELSE [pa EXCEPT !.pc = "retry",
                                !.cur = Retry(newDocID, requests, 0, 0, 0),
                                !.log = Append(@, Get(newDocID, "ok"))]
    /\ UNCHANGED drive
    /\ PatcherOnly

\* one iteration of the loop of executeWithRetry, and, when it returns, the
\* rest of patchDocumentLinks and processDocument
PatchAttempt ==
    /\ pa.pc = "retry"
    /\ pa.cur.i < maxRetryAttempts
    /\ \E res \in {"ok", "503", "other"} : \E jitter \in Jitters(delay(pa.cur.i)) :
          LET c == pa.cur
              called == [pa EXCEPT !.res = res,
                                   !.slept = IF retryable(res) /\ res # "ok"
                                             THEN Slept(delay(c.i), jitter) ELSE @,
                                   !.cur.calls = @ + 1,
                                   !.cur.unavailable = IF res = "503" THEN @ + 1 ELSE @,
                                   !.log = Append(@, Call("Documents.BatchUpdate", c.doc,
                                                          c.requests, res))]
          IN  IF res = "ok"
              THEN /\ drive' = BatchUpdate(drive, c.doc, c.requests)
                   /\ pa' = Processed(called, Len(c.requests), << Sleep("rate", 0) >>)
              ELSE /\ UNCHANGED drive
                   /\ pa' = IF ~retryable(res) THEN Failed(called, << >>)
                            ELSE IF c.i + 1 < maxRetryAttempts
                                 THEN [called EXCEPT !.cur.i = @ + 1,
                                                     !.log = Append(@, Sleep("backoff", c.i))]
                            ELSE Failed([called EXCEPT !.cur.i = @ + 1],
                                        << Sleep("backoff", c.i) >>)
    /\ PatcherOnly

\* processAllDocs has walked every path: Patcher.Run returns nil
PatchEnd ==
    /\ pa.pc = "walk"
    /\ pa.i > Len(pa.paths)
    /\ pa' = [pa EXCEPT !.pc = "done"]
    /\ UNCHANGED drive
    /\ PatcherOnly

\* processAllDocs: "if walkErr != nil { return walkErr }": a directory of the
\* workspace cannot be read, the walk ends and Patcher.Run returns the error
PatchWalkError ==
    /\ pa.pc = "walk"
    /\ pa.i <= Len(pa.paths)
    /\ pa' = [pa EXCEPT !.pc = "failed"]
    /\ UNCHANGED drive
    /\ PatcherOnly

\* what Uploader.Run leaves when the uploads of the directories in ok
\* succeed and the others fail
RECURSIVE UploadAll(_, _, _, _)
UploadAll(u, drv, fs, ok) ==
    IF u.i > Len(u.dirs) THEN [u |-> u, drive |-> drv]
    ELSE LET r == UploadDir(u, drv, fs, u.dirs[u.i],
                            IF u.dirs[u.i] \in ok THEN "ok" ELSE "upload_fail")
         IN  UploadAll(r.u, r.drive, fs, ok)

\* the patcher starts on what a crawl and an upload left: the workspace,
\* the files created on Drive, and id_map.json unless the mapping was empty
\* or could not be written
InitPatch ==
    /\ \E fs \in Workspaces :
       \E ok \in SUBSET { d \in DOMAIN fs : ~fs[d].meta.IsRedirect } :
       \E written \in BOOLEAN :
          LET r == UploadAll(UploaderLoop(folderId(createDriveFolder(Drive(0, << >>))),
                                          discoverDirectories(fs)),
                             createDriveFolder(Drive(0, << >>)), fs, ok)
          IN  /\ CrawlerGone(fs)
              /\ drive = r.drive
              /\ idMapFile = IF written /\ r.u.idMap # << >> THEN File(r.u.idMap)
                             ELSE NoFile
    /\ up = Idle
    /\ pa = [pc |-> "start"]
    /\ pl = Idle
    /\ st = Idle

NextPatch ==
    PatchStart \/ PatchDocument \/ PatchAttempt \/ PatchEnd \/ PatchWalkError

SpecPatch == InitPatch /\ [][NextPatch]_vars

\* the positions in the log of the calls to the Docs service
RemoteCalls ==
    IF "log" \in DOMAIN pa
    THEN { n \in 1..Len(pa.log) :
              pa.log[n].ev \in {"Documents.Get", "Documents.BatchUpdate"} }
    ELSE {}

BatchUpdates == { n \in RemoteCalls : pa.log[n].ev = "Documents.BatchUpdate" }

\* the non-alias records of a type that have a destination copy
CopiedRecords(type) ==
    { d \in DOMAIN files \ AliasDirs :
         files[d].meta.Type = type /\ KeyOf(files[d]) \in MappedKeys }

\* C6: every call the patcher makes to the Docs service (a fetch or a batch
\* of edits) is addressed to the destination copy of a document-kind record
\* and never to the copy of a sheet-kind record, and every edit of a batch
\* replaces a link whose target's identity key is in the identity mapping,
\* by the address of that key's destination copy.
C6_EditsOnlyMappedLinksOfDocs ==
    /\ \A n \in RemoteCalls :
          /\ \E d \in CopiedRecords("doc") :
                idMapFile.map[KeyOf(files[d])] = pa.log[n].doc
          /\ \A d \in CopiedRecords("sheet") :
                idMapFile.map[KeyOf(files[d])] # pa.log[n].doc
          /\ drive.files[pa.log[n].doc].MimeType = mimeTypes("doc")
    /\ \A n \in BatchUpdates :
          /\ pa.log[n].requests # << >>
          /\ \A j \in 1..Len(pa.log[n].requests) :
                LET r == pa.log[n].requests[j]
                    target == CanonicalizeURL(r.old).key
                IN  /\ target \in MappedKeys
                    /\ r.url = URL(0, r.old.kind, idMapFile.map[target], "edit")

\* C6 witness: the run is over; a batch of edits was applied to a document
\* that also links to a key absent from the mapping, and that link is still
\* there; a sheet has a destination copy.
C6_PatchedBesideUnmappedLink ==
    /\ pa.pc = "done"
    /\ CopiedRecords("sheet") # {}
    /\ \E n \in BatchUpdates :
          /\ pa.log[n].res = "ok"
          /\ \E j \in DOMAIN drive.files[pa.log[n].doc].links :
                LET k == CanonicalizeURL(drive.files[pa.log[n].doc].links[j]).key
                IN  k \in Keys \ MappedKeys

\* C10: executeWithRetry invokes the batched update at most maxRetryAttempts
\* times, each invocation after the first following only 503 answers; an
\* invocation that succeeds after k 503 answers is the (k+1)-th, ends the
\* call, and the document is counted as processed with its links patched;
\* an invocation that fails with another error ends the call at once and the
\* document is counted as a failure.
C10_RetryContract ==
    [][ (pa.pc = "retry") =>
          /\ pa.cur.calls < maxRetryAttempts
          /\ pa.cur.unavailable = pa.cur.calls
          /\ pa'.cur.calls = pa.cur.calls + 1
          /\ pa'.cur.calls <= maxRetryAttempts
          /\ (pa'.res = "ok") =>
                /\ pa'.pc = "walk"
                /\ pa'.cur.calls = pa.cur.unavailable + 1
                /\ pa'.stats.DocsProcessed = pa.stats.DocsProcessed + 1
                /\ pa'.stats.LinksPatched = pa.stats.LinksPatched + Len(pa.cur.requests)
                /\ pa'.stats.Failures = pa.stats.Failures
          /\ (pa'.res = "other") =>
                /\ pa'.pc = "walk"
                /\ pa'.stats.Failures = pa.stats.Failures + 1
                /\ pa'.stats.DocsProcessed = pa.stats.DocsProcessed
          /\ (pa'.res = "503") =>
                /\ (pa'.pc = "retry") <=> (pa'.cur.calls < maxRetryAttempts)
                /\ pa'.stats.DocsProcessed = pa.stats.DocsProcessed
      ]_vars

\* C10 witness: a batch succeeded on its sixth invocation, after five 503
\* answers, and another batch ended on an error that is not a 503.
C10_SucceededOnLastAttempt ==
    /\ pa.pc = "walk"
    /\ pa.res = "ok"
    /\ pa.cur.unavailable = maxRetryAttempts - 1
    /\ pa.cur.calls = maxRetryAttempts
    /\ \E n \in BatchUpdates : pa.log[n].res = "other"

\* C11: a batch that ends in failure (it exhausted its retries on 503 answers,
\* or got another error) adds exactly one to Failures and nothing to
\* DocsProcessed, and the walk goes on with the next record: the failure
\* never ends Patcher.Run, which fails only when the walk itself cannot read
\* the workspace.  When Run returns nil every record was visited, each counted
\* once as processed, skipped or failed.
C11_FailureIsPerDocument ==
    /\ [](("stats" \in DOMAIN pa /\ pa.pc \in {"walk", "done"}) =>
            (/\ pa.stats.DocsProcessed + pa.stats.DocsSkipped + pa.stats.Failures
                   = pa.i - 1
             /\ (pa.pc = "done") => (pa.i = Len(pa.paths) + 1)))
    /\ [][ /\ (pa.pc = "retry" /\ pa'.pc # "retry" /\ pa'.res # "ok") =>
                (/\ pa'.pc = "walk"
                 /\ pa'.i = pa.i + 1
                 /\ pa'.stats.Failures = pa.stats.Failures + 1
                 /\ pa'.stats.DocsProcessed = pa.stats.DocsProcessed
                 /\ pa'.stats.DocsSkipped = pa.stats.DocsSkipped)
           /\ (pa'.pc = "failed") => (pa.pc \in {"walk", "failed"})
          ]_vars

\* C11 witness: Run returned nil with one failure recorded; the failed batch
\* exhausted its retries (the backoff after its last 503 is in the log) and a
\* later document's batch was applied.
C11_ExhaustedThenPatchedNext ==
    /\ pa.pc = "done"
    /\ "stats" \in DOMAIN pa
    /\ pa.stats.Failures = 1
    /\ \E n \in 1..Len(pa.log) : \E m \in BatchUpdates :
          /\ pa.log[n] = Sleep("backoff", maxRetryAttempts - 1)
          /\ m > n
          /\ pa.log[m].res = "ok"

\* the batched updates sent for a destination copy
BatchesOf(d) == { n \in BatchUpdates : pa.log[n].doc = d }

\* the edits processDocument builds for the document record in dir
EditsOf(dir) ==
    buildPatchRequests(files[dir].hrefs, buildURLMap(files[dir].hrefs, pa.idMap))

\* C23: the edits of a document travel in one batched update: every update
\* request sent for a document carries all the edits built for it, at most
\* maxRetryAttempts requests are sent for it however many links it has, at
\* most one of them succeeds and none follows it, and no request is sent for
\* a document for which no edit was built.
C23_OneBatchPerDocument ==
    ("log" \in DOMAIN pa) =>
        \A dir \in CopiedRecords("doc") :
            LET d == Lookup(pa.idMap, KeyOf(files[dir]))
                B == BatchesOf(d)
            IN  /\ Cardinality(B) <= maxRetryAttempts
                /\ Cardinality({ n \in B : pa.log[n].res = "ok" }) <= 1
                /\ \A n \in B : pa.log[n].requests = EditsOf(dir)
                /\ \A n, m \in B : (pa.log[n].res = "ok") => (m <= n)
                /\ (EditsOf(dir) = << >>) => (B = {})

\* C23 witness: a document with two links to published records was patched
\* by one update request carrying both edits, and another document's batch
\* was sent the full number of times.
C23_TwoEditsOneRequest ==
    /\ pa.pc = "done"
    /\ "log" \in DOMAIN pa
    /\ \E dir \in CopiedRecords("doc") :
          LET B == BatchesOf(Lookup(pa.idMap, KeyOf(files[dir])))
          IN  /\ Cardinality(B) = 1
              /\ \A n \in B : pa.log[n].res = "ok" /\ Len(pa.log[n].requests) = 2
    /\ \E dir \in CopiedRecords("doc") :
          Cardinality(BatchesOf(Lookup(pa.idMap, KeyOf(files[dir])))) = maxRetryAttempts

\* C24, as claimed: between any two calls to the Docs service that are made
\* for different documents the patcher sleeps for the rate-limit delay.
C24_PauseBetweenDocuments ==
    \A n, m \in RemoteCalls :
        (n < m /\ pa.log[n].doc # pa.log[m].doc) =>
            \E k \in (n + 1)..(m - 1) : pa.log[k] = Sleep("rate", 0)

\* the edits of the batches of a log that the destination accepted
RECURSIVE AcceptedEdits(_)
AcceptedEdits(log) ==
    IF log = << >> THEN 0
    ELSE LET e == log[Len(log)]
         IN  AcceptedEdits(SubSeq(log, 1, Len(log) - 1))
             + (IF e.ev = "Documents.BatchUpdate" /\ e.res = "ok"
                THEN Len(e.requests) ELSE 0)

\* C39: when Patcher.Run has walked the workspace, DocsProcessed + DocsSkipped
\* + Failures is the number of metadata records visited; every visit of a
\* record adds one to exactly one of the three counters; and LinksPatched is
\* the number of edits in the batches the destination accepted, a failed or
\* unsent batch adding nothing to it.
C39_CountersPartitionRecords ==
    /\ [](("stats" \in DOMAIN pa) =>
            (/\ pa.stats.LinksPatched = AcceptedEdits(pa.log)
             /\ (pa.pc = "done") =>
                    (pa.stats.DocsProcessed + pa.stats.DocsSkipped + pa.stats.Failures
                        = Len(pa.paths))))
    /\ [][ ("stats" \in DOMAIN pa /\ "stats" \in DOMAIN pa' /\ pa'.i = pa.i + 1) =>
              LET d == << pa'.stats.DocsProcessed - pa.stats.DocsProcessed,
                          pa'.stats.DocsSkipped - pa.stats.DocsSkipped,
                          pa'.stats.Failures - pa.stats.Failures >>
              IN  /\ d \in { << 1, 0, 0 >>, << 0, 1, 0 >>, << 0, 0, 1 >> }
                  /\ (pa'.stats.LinksPatched # pa.stats.LinksPatched) =>
                         (/\ pa.pc = "retry"
                          /\ pa'.res = "ok"
                          /\ d = << 1, 0, 0 >>)
          ]_vars

\* C39 witness: a run that ended with documents processed, records skipped
\* and a document failed whose batch was refused, and with the edits of an
\* accepted batch counted.
C39_OneOfEachCounter ==
    /\ pa.pc = "done"
    /\ "stats" \in DOMAIN pa
    /\ pa.stats.DocsProcessed >= 1
    /\ pa.stats.DocsSkipped >= 1
    /\ pa.stats.Failures >= 1
    /\ pa.stats.LinksPatched >= 1
    /\ \E n \in BatchUpdates : pa.log[n].res = "other"

\* C40, as claimed: executeWithRetry sleeps only between two attempts: in the
\* log of a run every backoff sleep is followed by the next attempt of the
\* same batch, and once executeWithRetry has returned no backoff sleep is the
\* last event, so a call that made n attempts slept n - 1 times.
C40_WaitsOnlyBetweenAttempts ==
    ("log" \in DOMAIN pa) =>
        \A n \in 1..Len(pa.log) :
            (\E i \in 0..maxRetryAttempts : pa.log[n] = Sleep("backoff", i)) =>
                IF n < Len(pa.log)
                THEN /\ pa.log[n + 1].ev = "Documents.BatchUpdate"
                     /\ pa.log[n + 1].doc = pa.log[n - 1].doc
                ELSE pa.pc = "retry"

\* C27, as claimed: a batch sent for a published document holds, for every
\* linked text run of its destination copy whose target has, by the
\* crawler's CanonicalizeURL, a key of the mapping, exactly one edit: it
\* addresses that run and sets its link to the edit URL of the destination
\* id mapped to the key, with the kind of the key.
C27_EveryMappedLinkEdited ==
    ("log" \in DOMAIN pa) =>
        \A dir \in CopiedRecords("doc") : \A n \in BatchesOf(Lookup(pa.idMap, KeyOf(files[dir]))) :
            LET links == files[dir].hrefs
                requests == pa.log[n].requests
            IN  \A j \in 1..Len(links) :
                   LET key == CanonicalizeURL(links[j]).key
                       edits == { r \in 1..Len(requests) : requests[r].index = j }
                   IN  (key \in DOMAIN pa.idMap) =>
                          /\ Cardinality(edits) = 1
                          /\ \A r \in edits :
                                 requests[r].url =
                                    URL(0, IF key.type = "doc" THEN "document"
                                           ELSE "spreadsheets",
                                        pa.idMap[key], "edit")

\* the record in dir links, by CanonicalizeURL, to a key of the mapping
LinksToMapped(dir) ==
    \E j \in 1..Len(files[dir].hrefs) :
        CanonicalizeURL(files[dir].hrefs[j]).key \in DOMAIN pa.idMap

\* the record in dir is passed over: an alias, a sheet, or a document
\* without an entry in the mapping
PassedOver(dir) ==
    \/ files[dir].meta.IsRedirect
    \/ files[dir].meta.Type # "doc"
    \/ KeyOf(files[dir]) \notin DOMAIN pa.idMap

\* C28: processDocument makes no call to the Docs service for a record that
\* is an alias, is a sheet, has no entry in the mapping, or whose markup
\* links to no key of the mapping; the first three are counted as skipped
\* (and as nothing else) whenever their metadata could be read.  Every call
\* in the log is addressed to the copy of a document that is none of these.
C28_NoCallForSkippedRecords ==
    /\ [][ (pa.pc = "walk" /\ pa.i <= Len(pa.paths) /\ pa'.pc # "failed"
              /\ Decodes(files[pa.paths[pa.i]].meta)) =>
             LET dir == pa.paths[pa.i]
             IN  /\ (PassedOver(dir) \/ ~LinksToMapped(dir)) => (pa'.log = pa.log)
                 /\ (PassedOver(dir) /\ pa'.stats.Failures = pa.stats.Failures) =>
                        pa'.stats = [pa.stats EXCEPT !.DocsSkipped = @ + 1]
          ]_vars
    /\ [](("log" \in DOMAIN pa) =>
             \A n \in RemoteCalls :
                \E dir \in DOMAIN files :
                   /\ ~PassedOver(dir)
                   /\ LinksToMapped(dir)
                   /\ pa.log[n].doc = pa.idMap[KeyOf(files[dir])])

\* C28 witness: the walk is over; an alias, a sheet and a document without
\* a destination copy were skipped, and another document was patched.
C28_SkippedThreeKinds ==
    /\ pa.pc = "done"
    /\ "stats" \in DOMAIN pa
    /\ AliasDirs # {}
    /\ \E dir \in DOMAIN files \ AliasDirs :
          files[dir].meta.Type = "doc" /\ KeyOf(files[dir]) \notin DOMAIN pa.idMap
    /\ pa.stats.DocsSkipped = 3
    /\ pa.stats.Failures = 0
    /\ RemoteCalls # {}

\* the base delays of the waits, in milliseconds
Doubling == << 1000, 2000, 4000, 8000, 16000, 32000 >>

\* C33: after attempt i + 1 failed with a 503 answer, executeWithRetry sleeps
\* for 2^i seconds plus a jitter of at least 0 and less than half of those
\* 2^i seconds: the delays are 1 s, 2 s, 4 s, 8 s, 16 s before the second to
\* the sixth attempt, each twice the one before.  An attempt that fails with
\* another error is followed by no wait.
C33_BackoffDoubles ==
    [][ (pa.pc = "retry") =>
           LET i == pa.cur.i
               w == pa'.slept
           IN  /\ i = pa.cur.calls
               /\ (pa'.res = "503") =>
                      /\ w.delay = Doubling[i + 1]
                      /\ (i > 0) => (w.delay = 2 * pa.slept.delay)
                      /\ 0 <= w.jitter
                      /\ 2 * w.jitter < w.delay
                      /\ pa'.log[Len(pa.log) + 2] = Sleep("backoff", i)
               /\ (pa'.res # "503") =>
                      /\ pa'.slept = pa.slept
                      /\ \A n \in (Len(pa.log) + 1)..Len(pa'.log) :
                             pa'.log[n] # Sleep("backoff", i)
      ]_vars

\* C33 witness: the fifth attempt failed with a 503 answer and the wait
\* before the sixth is 16 s plus the greatest jitter, 7.999 s.
C33_WaitedSixteenSeconds ==
    /\ pa.pc = "retry"
    /\ pa.cur.i = 5
    /\ pa.slept = Slept(16000, 7999)

-----------------------------------------------------------------------------
(***************************************************************************)
(* The pipeline runner (Pipeline.RunFrom).  A step is its name; its Run    *)
(* returns nil or an error.                                                *)
(***************************************************************************)

\* the most steps a pipeline is built from
MaxSteps == 3

\* the pipelines NewPipeline builds from the three steps
Pipelines == SeqsUpTo({"crawler", "uploader", "patcher"}, MaxSteps)

\* what RunFrom returns: nothing yet, nil, or an error
NotReturned == [msg |-> "none"]
Nil == [msg |-> "nil"]
OutOfRange(start) == [msg |-> "start index out of range", start |-> start]
StepFailed(name, err) == [msg |-> "step failed", step |-> name, wraps |-> err]

\* ghosts: a step's Run is entered, and returns
Ran(ev, i, err) == [ev |-> ev, i |-> i, err |-> err]

\* a mutant: the loop goes on whatever the step returned
stops_never(err) == FALSE

\* RunFrom: "if err := step.Run(ctx); err != nil { return ... }"
stops(err) == err # "nil"

\* RunFrom: "for i := start; ..."
firstStep(start) == start

\* RunFrom is called: the range check
RunFromCall ==
    /\ pl.pc = "call"
    /\ pl' = IF pl.start < 0 \/ pl.start >= Len(pl.steps)
             THEN [pl EXCEPT !.pc = "returned", !.ret = OutOfRange(pl.start)]
             ELSE [pl EXCEPT !.pc = "loop", !.i = firstStep(pl.start)]
    /\ UNCHANGED << crawlerVars, up, drive, idMapFile, pa, st >>

\* the loop of RunFrom calls step.Run of step i (i counts from 0)
StepRun ==
    /\ pl.pc = "loop"
    /\ pl.i < Len(pl.steps)
    /\ pl' = [pl EXCEPT !.pc = "step", !.log = Append(@, Ran("begin", pl.i, "nil"))]
    /\ UNCHANGED << crawlerVars, up, drive, idMapFile, pa, st >>

\* step.Run returns
StepReturn ==
    /\ pl.pc = "step"
    /\ \E err \in {"nil", "e1", "e2"} :
          pl' = IF stops(err)
                THEN [pl EXCEPT !.pc = "returned",
                                !.ret = StepFailed(pl.steps[pl.i + 1], err),
                                !.log = Append(@, Ran("end", pl.i, err))]
                ELSE [pl EXCEPT !.pc = "loop", !.i = @ + 1,
                                !.log = Append(@, Ran("end", pl.i, err))]
    /\ UNCHANGED << crawlerVars, up, drive, idMapFile, pa, st >>

\* the loop of RunFrom is over: return nil
RunFromReturn ==
    /\ pl.pc = "loop"
    /\ pl.i >= Len(pl.steps)
    /\ pl' = [pl EXCEPT !.pc = "returned", !.ret = Nil]
    /\ UNCHANGED << crawlerVars, up, drive, idMapFile, pa, st >>

InitPipeline ==
    /\ CrawlerGone(WsEmpty)
    /\ up = Idle
    /\ drive = Idle
    /\ idMapFile = NoFile
    /\ pa = Idle
    /\ \E steps \in Pipelines : \E start \in -1..MaxSteps :
          pl = [pc |-> "call", steps |-> steps, start |-> start, i |-> 0,
                ret |-> NotReturned, log |-> << >>]
    /\ st = Idle

NextPipeline == RunFromCall \/ StepRun \/ StepReturn \/ RunFromReturn

SpecPipeline == InitPipeline /\ [][NextPipeline]_vars

\* C7: RunFrom(start) runs the steps start, start+1, ... in declared order,
\* one at a time: the k-th step begun is step start+k-1, it begins only after
\* the step before it returned nil, and no step below start is run; after a
\* step returns an error nothing more is run and RunFrom returns an error
\* naming that step and wrapping its error; RunFrom returns nil only after
\* every step from start to the last returned nil.
C7_StepsInOrderFromStart ==
    LET log == pl.log
        n == Len(log)
    IN  /\ \A k \in 1..n :
              /\ log[k].i = pl.start + ((k + 1) \div 2) - 1
              /\ log[k].i >= pl.start /\ log[k].i < Len(pl.steps)
              /\ log[k].ev = IF k % 2 = 1 THEN "begin" ELSE "end"
              /\ (k < n /\ log[k].ev = "end") => log[k].err = "nil"
        /\ (pl.pc = "step") <=> (n % 2 = 1)
        /\ (n > 0 /\ log[n].ev = "end" /\ log[n].err # "nil") =>
              /\ pl.pc = "returned"
              /\ pl.ret = StepFailed(pl.steps[log[n].i + 1], log[n].err)
        /\ (pl.pc = "returned" /\ pl.ret = Nil) =>
              /\ n = 2 * (Len(pl.steps) - pl.start)
              /\ n > 0
        /\ (pl.pc = "returned" /\ pl.ret = OutOfRange(pl.start)) => n = 0

\* C7 witness: a three-step pipeline resumed at its second step; that step
\* returned nil, the third returned an error, and RunFrom returned the error
\* naming the third step.
C7_ResumedThenFailed ==
    /\ pl.pc = "returned"
    /\ Len(pl.steps) = 3
    /\ pl.start = 1
    /\ Len(pl.log) = 4
    /\ pl.ret = StepFailed(pl.steps[3], "e2")

-----------------------------------------------------------------------------
(***************************************************************************)
(* The streaming design: main starts the crawler, the uploader and the     *)
(* patcher as goroutines.  The crawler sends each directory it persisted   *)
(* over the paths channel; the uploader closes doneUpload when it returns; *)
(* the patcher waits for doneUpload.                                       *)
(***************************************************************************)

\* the capacity of the paths channel.  main makes it with room for 128
\* paths; the model's channel holds fewer, so that the crawl of a small web
\* can fill it
pathsCap == 1

\* what the documents of the provider link to
Webs ==
    { (Key("doc", 1) :> << U2, U3 >>) @@ (Key("doc", 2) :> << U1v >>),
      (Key("doc", 1) :> << U2, U2 >>) @@ (Key("doc", 2) :> << UX, U3 >>) }

\* Crawler.canonicalKey
canonicalKey(link) ==
    LET u == canonicalLink(link)
    IN  IF u.wrap # 0 THEN NoKey
        ELSE IF u.kind = "document" THEN Key("doc", u.id)
        ELSE IF u.kind = "spreadsheets" THEN Key("sheet", u.id)
        ELSE NoKey

\* Crawler.makeSlug of the streaming crawler: an empty title (0) slugs to
\* the SHA-1 of the id, here 1000 + id, which is no title
slugOf(title, id) == makeSlug(IF title = 0 THEN 1000 + id ELSE title, id)

StreamTask(l, d, p) == [Link |-> l, Depth |-> d, Parent |-> p]

\* Crawler.extractLinks
extractLinks(hrefs, parentTask) ==
    LET inScope == SelectSeq(hrefs, LAMBDA h : canonicalKey(h) # NoKey)
    IN  [j \in 1..Len(inScope) |->
            StreamTask(canonicalLink(inScope[j]), parentTask.Depth + 1,
                       Join(parentTask.Parent,
                            slugOf(0, canonicalKey(inScope[j]).id)))]

\* a directory just created; a content file whose write has not ended, or
\* failed, is "partial"
EmptyDir == Entry("", << >>, NoMeta)

\* what the crawler is persisting
Scraped(task, canonical, title, hrefs) ==
    [task |-> task, canonical |-> canonical, title |-> title, hrefs |-> hrefs,
     dir |-> Join(task.Parent, slugOf(title, canonical.id))]

\* a mutant: the directory is sent as soon as its content file is written
afterContent_send(docType) == "send"

\* scrapeDoc, scrapeSheet: after the content file, writeMetadata
afterContent(docType) == "meta"

\* a mutant: the patcher does not wait
waits_never(done) == TRUE

\* Patcher.Run: "<-wait"
waits(done) == done

\* a mutant: after the failure of NewUploader the goroutine goes on to the
\* return of Uploader.Run
afterNewUploaderError_run == "closing"

\* main, the uploader goroutine: "close(doneUpload); return"
afterNewUploaderError == "dead"

\* a mutant: the range ends as soon as the channel is empty
rangeEnds_empty(paths, closed) == paths = << >>

\* Uploader.Run, "for dir := range in": the loop ends when the channel is
\* closed and drained
rangeEnds(paths, closed) == paths = << >> /\ closed

\* ghost: what the uploader found when it received a path
Receipt(dir, entry, writing) == [dir |-> dir, entry |-> entry, writing |-> writing]

\* the goroutines' locals right after main started them
Started(web) ==
    [pc |-> "run", web |-> web,
     c |-> [pc |-> "loop", queue |-> << StreamTask(startURL, 0, outDir) >>,
            seen |-> << >>,
            cur |-> Scraped(StreamTask(startURL, 0, outDir), NoKey, 0, << >>),
            metaFailed |-> {}],
     paths |-> << >>, closed |-> FALSE,
     closes |-> [paths |-> 0, done |-> 0],
     u |-> [pc |-> "new", idMap |-> << >>, stats |-> UploadStats(0, 0, 0),
            dir |-> outDir, result |-> "none"],
     done |-> FALSE,
     p |-> [pc |-> "new"],
     received |-> << >>]

StreamOnly == UNCHANGED << crawlerLocals, up, pl >>

\* main: the output directory is removed and created again, the channels are
\* made and the three goroutines started
StreamMain ==
    /\ st.pc = "main"
    /\ \/ /\ st' = Started(st.web)
          /\ files' = << >>
          /\ idMapFile' = NoFile
       \/ /\ st' = [st EXCEPT !.pc = "exit"]
          /\ files' = << >>
          /\ idMapFile' = NoFile
    /\ UNCHANGED << drive, pa >>
    /\ StreamOnly

\* os.MkdirAll: the directory and the directories above it
MkdirAll(fs, dir) ==
    [p \in DOMAIN fs \cup { SubSeq(dir, 1, n) : n \in 1..Len(dir) } |->
        IF p \in DOMAIN fs THEN fs[p] ELSE EmptyDir]

\* Crawler.writeRedirectMetadata
writeRedirectMetadata(fs, task, canonical, targetDir, ok) ==
    LET dir == Join(task.Parent, RedirectName(targetDir))
        meta == Metadata(Base(targetDir), canonical.id, task.Link, task.Depth,
                         "redirect", FALSE, Rel(task.Parent, targetDir))
    IN  [MkdirAll(fs, dir) EXCEPT ![dir].meta = IF ok THEN meta ELSE Partial]

\* one iteration of the loop of Crawler.Run, up to the first write of
\* scrapeDoc or scrapeSheet
StreamCrawl ==
    /\ st.pc = "run"
    /\ st.c.pc = "loop"
    /\ st.c.queue # << >>
    /\ LET task == Head(st.c.queue)
           rest == Tail(st.c.queue)
           canonical == canonicalKey(task.Link)
       IN  IF task.Depth > MaxDepth \/ canonical = NoKey
           THEN /\ st' = [st EXCEPT !.c.queue = rest]
                /\ UNCHANGED files
           ELSE IF canonical \in DOMAIN st.c.seen
           THEN /\ st' = [st EXCEPT !.c.queue = rest]
                /\ \E ok \in BOOLEAN :
                      files' = writeRedirectMetadata(files, task, canonical,
                                                     st.c.seen[canonical], ok)
           ELSE IF canonical.type = "doc"
           THEN \E outcome \in {"ok", "fetch_fail"} :
                   /\ st' = IF outcome = "ok"
                            THEN [st EXCEPT !.c.queue = rest, !.c.pc = "content",
                                            !.c.cur = Scraped(task, canonical,
                                                              TitleOf(canonical.id),
                                                              IF canonical \in DOMAIN st.web
                                                              THEN st.web[canonical]
                                                              ELSE << >>)]
                            ELSE [st EXCEPT !.c.queue = rest]
                   /\ UNCHANGED files
           ELSE \E title \in {TitleOf(canonical.id), 0} :
                \E outcome \in {"ok", "mkdir_fail", "fetch_fail"} :
                   LET s == Scraped(task, canonical, title, << >>)
                   IN  /\ st' = IF outcome = "ok"
                                THEN [st EXCEPT !.c.queue = rest, !.c.pc = "content_w",
                                                !.c.cur = s]
                                ELSE [st EXCEPT !.c.queue = rest]
                       /\ files' = IF outcome = "mkdir_fail" THEN files
                                   ELSE IF outcome = "fetch_fail" THEN MkdirAll(files, s.dir)
                                   ELSE [MkdirAll(files, s.dir) EXCEPT
                                            ![s.dir].content = "partial"]
    /\ UNCHANGED << drive, idMapFile, pa >>
    /\ StreamOnly

\* scrapeDoc: os.MkdirAll, and os.WriteFile of content.html begins
StreamWriteContent ==
    /\ st.pc = "run"
    /\ st.c.pc = "content"
    /\ \/ /\ files' = [MkdirAll(files, st.c.cur.dir) EXCEPT
                          ![st.c.cur.dir].content = "partial"]
          /\ st' = [st EXCEPT !.c.pc = "content_w"]
       \/ /\ st' = [st EXCEPT !.c.pc = "loop"]
          /\ UNCHANGED files
    /\ UNCHANGED << drive, idMapFile, pa >>
    /\ StreamOnly

\* the write of the content file ends: os.WriteFile of scrapeDoc, io.Copy of
\* scrapeSheet
StreamContentWritten ==
    /\ st.pc = "run"
    /\ st.c.pc = "content_w"
    /\ LET cur == st.c.cur
       IN  \/ /\ files' = [files EXCEPT ![cur.dir].content = filename(cur.canonical.type),
                                        ![cur.dir].hrefs = cur.hrefs]
              /\ st' = [st EXCEPT !.c.pc = afterContent(cur.canonical.type)]
           \/ /\ st' = [st EXCEPT !.c.pc = "loop"]
              /\ UNCHANGED files
    /\ UNCHANGED << drive, idMapFile, pa >>
    /\ StreamOnly

\* Crawler.writeMetadata: os.WriteFile of metadata.json begins, unless
\* os.MkdirAll fails
StreamWriteMetadata ==
    /\ st.pc = "run"
    /\ st.c.pc = "meta"
    /\ \/ /\ files' = [files EXCEPT ![st.c.cur.dir].meta = Partial]
          /\ st' = [st EXCEPT !.c.pc = "meta_w"]
       \/ /\ st' = [st EXCEPT !.c.pc = "send",
                              !.c.metaFailed = @ \cup {st.c.cur.dir}]
          /\ UNCHANGED files
    /\ UNCHANGED << drive, idMapFile, pa >>
    /\ StreamOnly

\* Crawler.writeMetadata returns: metadata.json is written, or the failure
\* is logged
StreamMetadataWritten ==
    /\ st.pc = "run"
    /\ st.c.pc = "meta_w"
    /\ LET cur == st.c.cur
       IN  \/ /\ files' = [files EXCEPT ![cur.dir].meta =
                              Metadata(cur.title, cur.canonical.id, cur.task.Link,
                                       cur.task.Depth, cur.canonical.type, FALSE, NoRel)]
              /\ st' = [st EXCEPT !.c.pc = "send"]
           \/ /\ st' = [st EXCEPT !.c.pc = "send",
                                  !.c.metaFailed = @ \cup {cur.dir}]
              /\ UNCHANGED files
    /\ UNCHANGED << drive, idMapFile, pa >>
    /\ StreamOnly

\* processDocument, processSheet after the scrape: "seen[canonical] = dir",
\* "out <- dir", and for a document the nested tasks are queued
StreamSend ==
    /\ st.pc = "run"
    /\ st.c.pc = "send"
    /\ Len(st.paths) < pathsCap
    /\ LET cur == st.c.cur
       IN  st' = [st EXCEPT
                    !.c.pc = "loop",
                    !.c.seen = Put(@, cur.canonical, cur.dir),
                    !.paths = Append(@, cur.dir),
                    !.c.queue = IF cur.canonical.type = "doc"
                                THEN @ \o extractLinks(cur.hrefs, cur.task) ELSE @]
    /\ UNCHANGED << files, drive, idMapFile, pa >>
    /\ StreamOnly

\* Crawler.Run returns: "defer close(out)"
StreamCrawlEnd ==
    /\ st.pc = "run"
    /\ st.c.pc = "loop"
    /\ st.c.queue = << >>
    /\ st' = [st EXCEPT !.c.pc = "done", !.closed = TRUE, !.closes.paths = @ + 1]
    /\ UNCHANGED << files, drive, idMapFile, pa >>
    /\ StreamOnly

\* main's uploader goroutine: NewUploader; on an error main closes doneUpload
StreamNewUploader ==
    /\ st.pc = "run"
    /\ st.u.pc = "new"
    /\ \/ st' = [st EXCEPT !.u.pc = "folder"]
       \/ st' = [st EXCEPT !.u.pc = afterNewUploaderError, !.u.result = "failed",
                            !.done = TRUE, !.closes.done = @ + 1]
    /\ UNCHANGED << files, drive, idMapFile, pa >>
    /\ StreamOnly

\* Uploader.Run of the streaming uploader: ensureDriveFolder
StreamEnsureFolder ==
    /\ st.pc = "run"
    /\ st.u.pc = "folder"
    /\ \/ /\ drive' = createDriveFolder(drive)
          /\ st' = [st EXCEPT !.u.pc = "recv"]
       \/ /\ st' = [st EXCEPT !.u.pc = "closing", !.u.result = "failed"]
          /\ UNCHANGED drive
    /\ UNCHANGED << files, idMapFile, pa >>
    /\ StreamOnly

\* "for dir := range in": a path is received
StreamReceive ==
    /\ st.pc = "run"
    /\ st.u.pc = "recv"
    /\ st.paths # << >>
    /\ LET dir == Head(st.paths)
       IN  st' = [st EXCEPT
                    !.u.pc = "process",
                    !.u.dir = dir,
                    !.paths = Tail(@),
                    !.received = Append(@, Receipt(dir, files[dir],
                                                   st.c.pc # "loop" /\ st.c.pc # "done"
                                                   /\ st.c.cur.dir = dir))]
    /\ UNCHANGED << files, drive, idMapFile, pa >>
    /\ StreamOnly

\* Uploader.processDirectory of the streaming uploader
StreamProcessDirectory ==
    /\ st.pc = "run"
    /\ st.u.pc = "process"
    /\ \E outcome \in {"ok", "upload_fail"} :
          LET dir == st.u.dir
              metadata == files[dir].meta
              stats == st.u.stats
              sent == uploadFile(drive, files, dir, metadata, folderId(drive), outcome)
          IN  IF ~Decodes(metadata)
              THEN /\ st' = [st EXCEPT !.u.pc = "recv", !.u.stats.Failed = @ + 1]
                   /\ UNCHANGED drive
              ELSE IF metadata.Type = "redirect"
              THEN /\ st' = [st EXCEPT !.u.pc = "recv", !.u.stats.Skipped = @ + 1]
                   /\ UNCHANGED drive
              ELSE IF ~sent.ok
              THEN /\ st' = [st EXCEPT !.u.pc = "recv", !.u.stats.Failed = @ + 1]
                   /\ UNCHANGED drive
              ELSE /\ st' = [st EXCEPT
                               !.u.pc = "recv",
                               !.u.idMap = Put(@, Key(metadata.Type, metadata.ID), sent.id),
                               !.u.stats.TotalUploaded = @ + 1]
                   /\ drive' = sent.drive
    /\ UNCHANGED << files, idMapFile, pa >>
    /\ StreamOnly

\* the range over the channel ends (closed and drained); writeIDMap begins
\* to write id_map.json, or skips it for an empty mapping
StreamRangeEnd ==
    /\ st.pc = "run"
    /\ st.u.pc = "recv"
    /\ rangeEnds(st.paths, st.closed)
    /\ IF st.u.idMap = << >>
       THEN /\ st' = [st EXCEPT !.u.pc = "closing", !.u.result = "declined"]
            /\ UNCHANGED idMapFile
       ELSE /\ st' = [st EXCEPT !.u.pc = "write"]
            /\ idMapFile' = Partial
    /\ UNCHANGED << files, drive, pa >>
    /\ StreamOnly

\* writeIDMap: os.WriteFile returns
StreamWriteIDMap ==
    /\ st.pc = "run"
    /\ st.u.pc = "write"
    /\ \/ /\ idMapFile' = File(st.u.idMap)
          /\ st' = [st EXCEPT !.u.pc = "closing", !.u.result = "wrote"]
       \/ /\ st' = [st EXCEPT !.u.pc = "closing", !.u.result = "failed"]
          /\ UNCHANGED idMapFile
    /\ UNCHANGED << files, drive, pa >>
    /\ StreamOnly

\* Uploader.Run returns: "defer close(done)"
StreamClose ==
    /\ st.pc = "run"
    /\ st.u.pc = "closing"
    /\ st' = [st EXCEPT !.u.pc = "returned", !.done = TRUE, !.closes.done = @ + 1]
    /\ UNCHANGED << files, drive, idMapFile, pa >>
    /\ StreamOnly

\* main's patcher goroutine: NewPatcher
StreamNewPatcher ==
    /\ st.pc = "run"
    /\ st.p.pc = "new"
    /\ \/ st' = [st EXCEPT !.p.pc = "wait"]
       \/ st' = [st EXCEPT !.p.pc = "dead"]
    /\ UNCHANGED << files, drive, idMapFile, pa >>
    /\ StreamOnly

\* Patcher.Run of the streaming patcher: "<-wait"; what follows is
\* PatchStart, PatchDocument, PatchAttempt and PatchEnd
StreamWait ==
    /\ st.pc = "run"
    /\ st.p.pc = "wait"
    /\ waits(st.done)
    /\ st' = [st EXCEPT !.p.pc = "run"]
    /\ pa' = [pc |-> "start"]
    /\ UNCHANGED << files, drive, idMapFile >>
    /\ StreamOnly

InitStream ==
    /\ cpc = "idle"
    /\ pendingLinks = << >>
    /\ processedURLs = << >>
    /\ fetched = {}
    /\ refetched = {}
    /\ persisted = {}
    /\ repersisted = {}
    /\ failedKeys = {}
    /\ encountered = {}
    /\ last = NoOp
    /\ up = Idle
    /\ pa = Idle
    /\ pl = Idle
    /\ \E web \in Webs : st = [pc |-> "main", web |-> web]
    /\ startURL \in RootURLs
    /\ files \in { WsEmpty, WsSheet }
    /\ idMapFile \in { NoFile, File(Key("sheet", 3) :> 101) }
    /\ drive \in { Drive(0, << >>), Drive(1, << >>) }

NextStream ==
    \/ StreamMain
    \/ StreamCrawl \/ StreamWriteContent \/ StreamContentWritten
    \/ StreamWriteMetadata \/ StreamMetadataWritten \/ StreamSend \/ StreamCrawlEnd
    \/ StreamNewUploader \/ StreamEnsureFolder \/ StreamReceive
    \/ StreamProcessDirectory \/ StreamRangeEnd \/ StreamWriteIDMap \/ StreamClose
    \/ StreamNewPatcher \/ StreamWait
    \/ PatchStart \/ PatchDocument \/ PatchAttempt \/ PatchEnd \/ PatchWalkError

SpecStream == InitStream /\ [][NextStream]_vars

\* the Go scheduler runs a goroutine that can run: while a step of one of the
\* three goroutines is possible, a step is taken
SpecStreamFair == SpecStream /\ WF_vars(NextStream)

\* the streaming patcher has read id_map.json (loadIDMap has returned)
PatcherHasRead == st.pc = "run" /\ pa.pc \notin {"idle", "start"}

\* C8: in the streaming design, once the patcher has read id_map.json the
\* uploader has finished: it returned after writing the mapping (and that
\* mapping is what the patcher loaded), or it ended without writing one,
\* because nothing was uploaded or because it failed, and the patcher found
\* no mapping to load.
C8_PatcherReadsAfterUploader ==
    PatcherHasRead =>
        /\ st.done
        /\ st.u.pc \in {"returned", "dead"}
        /\ st.u.result \in {"wrote", "declined", "failed"}
        /\ (st.u.result = "wrote") =>
              /\ idMapFile = File(st.u.idMap)
              /\ "idMap" \in DOMAIN pa
              /\ pa.idMap = st.u.idMap
        /\ (st.u.result # "wrote") =>
              /\ ~Readable(idMapFile)
              /\ pa = [pc |-> "done"]

\* C8 witness: the uploader wrote a mapping and returned, and the patcher,
\* having loaded it, patched a document.
C8_PatchedWithWrittenMapping ==
    /\ PatcherHasRead
    /\ st.u.result = "wrote"
    /\ pa.pc = "done"
    /\ pa.stats.LinksPatched > 0

\* the receipts of the uploader, by position
Receipts == IF st.pc = "run" THEN 1..Len(st.received) ELSE {}

-----------------------------------------------------------------------------
(***************************************************************************)
(* The program: main builds the pipeline of the three steps and calls      *)
(* RunFrom at step 0, or at the step the -retry flag names.  The program   *)
(* may be killed at any point and started again; the output directory and  *)
(* the destination Drive outlive a run.                                    *)
(***************************************************************************)

\* the most times the program is started
MaxRuns == 2

\* main: "steps := []Step{crawler, uploader, patcher}"
mainSteps == << "crawler", "uploader", "patcher" >>

\* a component of a process that is killed stops where it is
Kill(c) == IF c.pc \in {"idle", "done", "failed"} THEN c ELSE [c EXCEPT !.pc = "killed"]

\* the return of step.Run to RunFrom
StepEnds(err) ==
    IF stops(err)
    THEN [pl EXCEPT !.pc = "returned",
                    !.ret = StepFailed(pl.steps[pl.i + 1], err),
                    !.log = Append(@, Ran("end", pl.i, err))]
    ELSE [pl EXCEPT !.pc = "loop", !.i = @ + 1,
                    !.log = Append(@, Ran("end", pl.i, err))]

\* step.Run is entered.  Crawler.Run begins by removing and creating the
\* output directory; Uploader.Run and Patcher.Run begin with fresh locals.
StepBegins ==
    /\ pl.pc = "step"
    /\ \/ /\ pl.steps[pl.i + 1] = "crawler"
          /\ \/ /\ files' = << >>
                /\ idMapFile' = NoFile
                /\ pl' = [pl EXCEPT !.pc = "running"]
             \/ /\ pl' = StepEnds("e1")
                /\ UNCHANGED << files, idMapFile >>
          /\ UNCHANGED << up, pa >>
       \/ /\ pl.steps[pl.i + 1] = "uploader"
          /\ up' = [pc |-> "start"]
          /\ pl' = [pl EXCEPT !.pc = "running"]
          /\ UNCHANGED << files, idMapFile, pa >>
       \/ /\ pl.steps[pl.i + 1] = "patcher"
          /\ pa' = [pc |-> "start"]
          /\ pl' = [pl EXCEPT !.pc = "running"]
          /\ UNCHANGED << files, idMapFile, up >>
    /\ UNCHANGED << crawlerLocals, drive, st >>

\* step.Run returns.  Crawler.Run returns nil, leaving a workspace a crawl
\* ends with (here: nothing, a sheet, or a document beside a sheet it links
\* to); Uploader.Run and Patcher.Run return what they ended on.
StepReturns ==
    /\ pl.pc = "running"
    /\ \/ /\ pl.steps[pl.i + 1] = "crawler"
          /\ \E fs \in {WsEmpty, WsSheet, WsPartial} : files' = fs
          /\ pl' = StepEnds("nil")
       \/ /\ pl.steps[pl.i + 1] = "uploader"
          /\ up.pc \in {"done", "failed"}
          /\ pl' = StepEnds(IF up.pc = "done" THEN "nil" ELSE "e1")
          /\ UNCHANGED files
       \/ /\ pl.steps[pl.i + 1] = "patcher"
          /\ pa.pc \in {"done", "failed"}
          /\ pl' = StepEnds(IF pa.pc = "done" THEN "nil" ELSE "e2")
          /\ UNCHANGED files
    /\ UNCHANGED << crawlerLocals, up, drive, idMapFile, pa, st >>

\* the process is killed while a step runs.  Killed inside os.WriteFile of
\* writeIDMap (the file is truncated, then written), id_map.json is left cut
\* short.
Abandon ==
    /\ pl.pc \in {"step", "running"}
    /\ pl' = [pl EXCEPT !.pc = "killed"]
    /\ up' = Kill(up)
    /\ pa' = Kill(pa)
    /\ \/ UNCHANGED idMapFile
       \/ /\ up.pc = "loop"
          /\ up.i > Len(up.dirs)
          /\ up.idMap # << >>
          /\ idMapFile' = Partial
    /\ UNCHANGED << crawlerVars, drive, st >>

\* the program is started again, with or without -retry; prev is a ghost,
\* what the run before left
MainAgain ==
    /\ pl.pc \in {"returned", "killed"}
    /\ pl.run < MaxRuns
    /\ \E start \in 0..(Len(mainSteps) - 1) :
          pl' = [pc |-> "call", steps |-> mainSteps, start |-> start, i |-> 0,
                 ret |-> NotReturned, log |-> << >>, run |-> pl.run + 1,
                 prev |-> [pc |-> pl.pc, i |-> pl.i, ret |-> pl.ret, files |-> files,
                           idMapFile |-> idMapFile, drive |-> drive,
                           published |-> IF "published" \in DOMAIN up
                                         THEN up.published ELSE {},
                           patcher |-> IF "stats" \in DOMAIN pa
                                       THEN [pc |-> pa.pc, stats |-> pa.stats]
                                       ELSE [pc |-> pa.pc]]]
    /\ up' = Idle
    /\ pa' = Idle
    /\ UNCHANGED << crawlerVars, drive, idMapFile, st >>

InitRun ==
    /\ CrawlerGone(WsEmpty)
    /\ up = Idle
    /\ drive = Drive(0, << >>)
    /\ idMapFile = NoFile
    /\ pa = Idle
    /\ pl = [pc |-> "call", steps |-> mainSteps, start |-> 0, i |-> 0,
             ret |-> NotReturned, log |-> << >>, run |-> 1, prev |-> Idle]
    /\ st = Idle

NextRun ==
    \/ RunFromCall \/ StepRun \/ StepBegins \/ StepReturns \/ RunFromReturn
    \/ UploadStart \/ UploadNext \/ UploadEnd
    \/ PatchStart \/ PatchDocument \/ PatchAttempt \/ PatchEnd \/ PatchWalkError
    \/ Abandon \/ MainAgain

SpecRun == InitRun /\ [][NextRun]_vars

\* C13: whenever Uploader.Run returned nil having uploaded no record, the
\* Patcher.Run that follows it in the same run calls the Docs service not
\* once and returns nil, and RunFrom returns nil; in a full run and in a run
\* started with -retry uploader over the output directory of an earlier run.
C13_NothingPublishedNothingPatched ==
    (pl.pc = "returned" /\ up.pc = "done" /\ up.published = {}
        /\ pa.pc \in {"done", "failed"}) =>
        (RemoteCalls = {} /\ pa.pc = "done" /\ pl.ret = Nil)

\* C14: when Patcher.Run finds an id_map.json that cannot be decoded, it
\* returns an error and RunFrom returns that error, naming the patcher.
C14_UndecodableMappingFails ==
    (pl.pc = "returned" /\ idMapFile = Partial /\ pa.pc \in {"done", "failed"}) =>
        (pa.pc = "failed" /\ pl.ret = StepFailed("patcher", "e2"))

\* C15: when the full pipeline has run twice to the end over the same root,
\* the second crawl leaving the workspace the first left and the second
\* upload publishing the records the first published, id_map.json is the
\* same after the second run as after the first: the same keys, each with
\* the same destination id.
C15_SameMappingOnRerun ==
    (/\ pl.pc = "returned" /\ pl.ret = Nil /\ pl.run = 2 /\ pl.start = 0
     /\ pl.prev.pc = "returned" /\ pl.prev.ret = Nil
     /\ files = pl.prev.files
     /\ up.published = pl.prev.published) =>
        idMapFile = pl.prev.idMapFile

\* C16: when Uploader.Run has returned nil a second time over a workspace
\* that did not change since a complete first run, the destination holds the
\* files it held after the first run, and no others.
C16_UploaderIdempotent ==
    (/\ up.pc = "done" /\ pl.run = 2 /\ pl.start = 1
     /\ pl.prev.pc = "returned" /\ pl.prev.ret = Nil) =>
        DOMAIN drive.files = DOMAIN pl.prev.drive.files

\* C17: when a run is killed, id_map.json is absent or holds a whole mapping,
\* and every record whose metadata.json decodes has its content file; and
\* when the next run, started at the step that was interrupted, runs to the
\* end, id_map.json has an entry for every record that either run uploaded.
C17_AbandonedRunResumes ==
    /\ (pl.pc = "killed") =>
          /\ idMapFile # Partial
          /\ \A d \in DOMAIN files \ AliasDirs :
                Decodes(files[d].meta) =>
                    files[d].content = filename(files[d].meta.Type)
    /\ (pl.pc = "returned" /\ pl.ret = Nil /\ pl.run > 1
           /\ pl.prev.pc = "killed" /\ pl.start = pl.prev.i) =>
          /\ Readable(idMapFile) \/ idMapFile = NoFile
          /\ \A d \in pl.prev.published \cup
                      (IF "published" \in DOMAIN up THEN up.published ELSE {}) :
                KeyOf(files[d]) \in MappedKeys


\* C30: createDriveFolder is called once in a run of the uploader, before
\* its loop; it creates a folder only when the search found none, so the
\* destination never holds a second folder of the name, in a first run or
\* in a later one; and every file the loop creates has the id it returned
\* as its parent.
C30_OneFolderPerName ==
    /\ [](drive.folders <= 1)
    /\ [][ (drive'.folders # drive.folders) =>
              (up.pc = "start" /\ drive.folders = 0 /\ drive'.folders = 1) ]_vars
    /\ [][ (up.pc = "loop" /\ "parentID" \in DOMAIN up') =>
              /\ up'.parentID = up.parentID
              /\ up.parentID = folderId(drive)
              /\ up.parentID # 0
              /\ \A f \in DOMAIN drive'.files \ DOMAIN drive.files :
                     drive'.files[f].Parents = up.parentID ]_vars

\* C30 witness: the uploader of the second run ended; it found the folder
\* the first run had created and published into it, beside the first run's
\* file.
C30_SecondRunReusedFolder ==
    /\ pl.run = 2
    /\ up.pc = "done"
    /\ pl.prev.drive.folders = 1
    /\ drive.folders = 1
    /\ DOMAIN pl.prev.drive.files # {}
    /\ \E f \in DOMAIN drive.files \ DOMAIN pl.prev.drive.files :
          drive.files[f].Parents = folderId(pl.prev.drive)
    /\ \A f \in DOMAIN drive.files : drive.files[f].Parents = folderId(drive)


\* C31: when the patcher is run again (-retry patcher) over the workspace,
\* the mapping and the destination a full run left, and in that run the
\* patcher failed on no document, it builds no edit and sends no update:
\* the destination copies stay as they are and LinksPatched stays 0.  The
\* destination ids (NewID) are none of the source ids.
C31_RepatchBuildsNoEdit ==
    (/\ pl.run = 2 /\ pl.start = 2
     /\ pl.prev.pc = "returned" /\ pl.prev.ret = Nil
     /\ pl.prev.patcher.pc = "done" /\ "stats" \in DOMAIN pl.prev.patcher
     /\ pl.prev.patcher.stats.Failures = 0) =>
        /\ BatchUpdates = {}
        /\ drive = pl.prev.drive
        /\ idMapFile = pl.prev.idMapFile
        /\ ("stats" \in DOMAIN pa) => (pa.stats.LinksPatched = 0)

\* C31 witness: the first run patched a link; the patcher of the second
\* run fetched the same document again, found nothing to edit and ended.
C31_SecondPatchFetchedOnly ==
    /\ pl.run = 2 /\ pl.start = 2
    /\ pl.prev.pc = "returned" /\ pl.prev.ret = Nil
    /\ pl.prev.patcher.pc = "done" /\ "stats" \in DOMAIN pl.prev.patcher
    /\ pl.prev.patcher.stats.Failures = 0
    /\ pl.prev.patcher.stats.LinksPatched = 1
    /\ pa.pc = "done" /\ "stats" \in DOMAIN pa
    /\ pa.stats.DocsProcessed = 1
    /\ \E n \in RemoteCalls : pa.log[n] = Get(pa.log[n].doc, "ok")

\* C37, as claimed: two identity keys are never persisted to the same
\* directory: the directories recorded for two keys differ, and every key
\* that was persisted still has its record, content and metadata, in the
\* workspace.
C37_OneDirectoryPerKey ==
    /\ \A k1, k2 \in DOMAIN processedURLs :
          (k1 # k2) => (processedURLs[k1] # processedURLs[k2])
    /\ (cpc \in {"loop", "done"}) => \A k \in persisted : RecordsOf(k) # {}

\* C38, as claimed: no fetched document ends the crawl: makeSlug yields a
\* directory name for every id and Crawler.Run goes on to the next entry.
C38_PersistNeverAborts == cpc # "panicked"

\* the three goroutines of the streaming design have returned (wg.Wait
\* returns), or main ended before it started them
CrawlerReturned == st.c.pc = "done"
UploaderReturned == st.u.pc \in {"returned", "dead"}
PatcherReturned == st.p.pc = "dead" \/ (st.p.pc = "run" /\ pa.pc \in {"done", "failed"})
PipelineComplete ==
    \/ st.pc = "exit"
    \/ st.pc = "run" /\ CrawlerReturned /\ UploaderReturned /\ PatcherReturned

\* C34, as claimed: the streaming pipeline always runs to completion: the
\* three goroutines return, whatever fails and however many documents are
\* crawled; the crawler never stays blocked in "out <- dir".
C34_PipelineCompletes == <>PipelineComplete

\* C35: doneUpload and paths are each closed at most once, and only in the
\* step in which their owner returns: paths by Crawler.Run, doneUpload by
\* the uploader goroutine (by Uploader.Run, or by main when NewUploader
\* failed); once the owner has returned its channel is closed, and it was
\* closed once.
C35_ClosedOnceByOwner ==
    /\ []((st.pc = "run") =>
            (/\ st.closes.paths = (IF CrawlerReturned THEN 1 ELSE 0)
             /\ st.closes.done = (IF UploaderReturned THEN 1 ELSE 0)
             /\ st.closed = CrawlerReturned
             /\ st.done = UploaderReturned))
    /\ [][ (st.pc = "run" /\ st'.pc = "run") =>
              (/\ (st'.closes.paths # st.closes.paths) =>
                      (st.c.pc = "loop" /\ st'.c.pc = "done" /\ st'.u = st.u /\ st'.p = st.p)
               /\ (st'.closes.done # st.closes.done) =>
                      (st.u.pc \in {"new", "closing"} /\ st'.c = st.c /\ st'.p = st.p))
          ]_vars

\* C35 witness: the three goroutines have returned after a crawl that sent
\* paths; both channels are closed, each by one close.
C35_BothClosedAtTheEnd ==
    /\ st.pc = "run"
    /\ CrawlerReturned /\ UploaderReturned /\ PatcherReturned
    /\ st.received # << >>
    /\ st.closes = [paths |-> 1, done |-> 1]

====
